---- MODULE Spec2Model ----
(***************************************************************************)
(* Guest entitlement and photo lifecycle of the wedding photo-sharing app. *)
(*                                                                         *)
(* The backend tables (wedding_events, guests, photos), the storage bucket *)
(* and each browser tab's component state are the variables.  Every        *)
(* handler of the client is an action; a handler that awaits several       *)
(* backend requests is one action per request, so that other tabs can run  *)
(* between its requests exactly where the code yields.                     *)
(***************************************************************************)
EXTENDS Integers, Sequences, FiniteSets, TLC

(***************************************************************************)
(* Bounds of the model and constants of the program.                       *)
(***************************************************************************)
MaxEvents == 2
MaxGuests == 2
MaxPhotos == 1
MaxCount == 2
MaxUntracked == 1
MaxFailures == 1
MaxStarted == 2
MaxInbox == 2

QUOTA_V1 == 10
QUOTA_V2 == 20
RESTORE_CAP == 10
MAX_CAPTION_LENGTH == 150
CAPTION_MIN == 1
CAPTION_MAX == 150

Clients == {"c1", "c2"}
Couples == {"u1", "u2"}
EventIds == 1..MaxEvents
GuestIds == 1..MaxGuests
PhotoIds == 1..MaxPhotos

Unnamed == 0

Min(a, b) == IF a <= b THEN a ELSE b

(***************************************************************************)
(* Text.  An event code or a name is a sequence of characters; toUpperCase *)
(* and trim are computed character by character.                           *)
(***************************************************************************)
Upper(ch) ==
    CASE ch = "a" -> "A"
      [] ch = "b" -> "B"
      [] ch = "x" -> "X"
      [] OTHER -> ch

IsWhitespace(ch) == ch = " "

ToUpperCase(s) == [i \in 1..Len(s) |-> Upper(s[i])]

RECURSIVE TrimStart(_)
TrimStart(s) ==
    IF s # <<>> /\ IsWhitespace(Head(s)) THEN TrimStart(Tail(s)) ELSE s

RECURSIVE TrimEnd(_)
TrimEnd(s) ==
    IF s # <<>> /\ IsWhitespace(s[Len(s)])
    THEN TrimEnd(SubSeq(s, 1, Len(s) - 1))
    ELSE s

\* A trim that removes nothing.
TrimNoop(s) == s

Trim(s) == TrimEnd(TrimStart(s))

Substring(s, from, to) == SubSeq(s, from + 1, Min(to, Len(s)))

generateEventCode(coupleName, partnerName, random) ==
    ToUpperCase(Substring(coupleName, 0, 3) \o Substring(partnerName, 0, 3))
        \o <<"-">> \o ToUpperCase(random)

\* The text handleJoin sends as the event_code filter.
NormalizeJoinCode(text) == Trim(ToUpperCase(text))

(***************************************************************************)
(* Caption text.  A caption of up to 151 characters is kept as the number  *)
(* of leading whitespace characters, the length of the text between the    *)
(* first and the last non-whitespace character, and the number of trailing *)
(* whitespace characters; a text of whitespace only has core = 0 and       *)
(* trail = 0.  NULL is the caption column's SQL NULL.                      *)
(***************************************************************************)
Text(l, k, t) == [lead |-> l, core |-> k, trail |-> t, null |-> FALSE]
NULL == [lead |-> 0, core |-> 0, trail |-> 0, null |-> TRUE]
EmptyText == Text(0, 0, 0)

Length(txt) == txt.lead + txt.core + txt.trail

TrimText(txt) == Text(0, txt.core, 0)

\* caption: trimmedCaption.length > 0 ? trimmedCaption : null
CaptionToStore(txt) ==
    LET trimmedCaption == TrimText(txt)
    IN  IF Length(trimmedCaption) > 0 THEN trimmedCaption ELSE NULL

\* A check that accepts every caption.
photos_caption_any(caption) == TRUE

\* CHECK (caption IS NULL OR (char_length(caption) >= 1 AND char_length(caption) <= 150))
photos_caption_length(caption) ==
    caption.null \/ (Length(caption) >= CAPTION_MIN /\ Length(caption) <= CAPTION_MAX)

\* onChange of both caption textareas: the new value is kept only when it fits.
AcceptCaptionInput(current, value) ==
    IF Length(value) <= MAX_CAPTION_LENGTH THEN value ELSE current

(***************************************************************************)
(* State.                                                                  *)
(***************************************************************************)
VARIABLES
    default_quota,   \* DEFAULT of guests.photos_remaining in the schema in force
    wedding_events,  \* table: id -> [couple_user_id, event_code]
    guests,          \* table: id -> [wedding_event_id, photos_remaining, has_unlocked_feed]
    photos,          \* table: id -> [wedding_event_id, guest_id, image_url, caption]
    storage,         \* object names held by the wedding-photos bucket
    untracked,       \* per guest: further rows of photos, which no tab acts on again
    dashEvent,       \* per couple: the Dashboard's weddingEvent (0: null)
    eventCode,       \* per tab: JoinWedding's eventCode field
    guestSession,    \* per tab: useGuestSession's guestSession (guestId 0: null)
    guestData,       \* per tab: Guest's guestData
    fetching,        \* per tab: a fetchData call is in flight
    upload,          \* per tab: Guest's showUpload and the PhotoUpload component
    feed,            \* per tab: PhotoSwipeFeed's loading flag and photos list
    del,             \* per tab: PhotoSwipeFeed's deletePhotoId, deleting and the handler's position
    edit,            \* per tab: PhotoSwipeFeed's editingPhotoId and editCaption
    joinLog,         \* history, per tab: the text typed into the form and the event it joined
    hist,            \* history, per guest: quota at join, successful uploads and deletes,
                     \* photo records removed and credits restored
    failures,        \* number of backend requests that have failed so far
    started,         \* number of uploads and deletes started so far, up to MaxStarted
    createLog,       \* history, per couple: the code of the last create attempt and its outcome
    auth,            \* per tab: the id of the anonymous identity signed in (0: none)
    create,          \* per tab: createGuestSession's position, arguments and return value
    lookups,         \* per tab: identities whose deferred guest lookup is pending
    answers,         \* per tab: guest rows found by lookups whose answer is on its way
    cleared,         \* history, per tab: clearGuestSession has completed and no call of
                     \* createGuestSession has succeeded since
    request,         \* history: the last request sent to the table API outside the pages
    coupleFeed,      \* per visitor: CoupleFeed's route, weddingEvent, photos and loading
    route,           \* per tab: the page the router shows, "join" or "guest"
    live             \* per tab: PhotoSwipeFeed's list as fetchPhotos and the channel write it

vars == <<default_quota, wedding_events, guests, photos, storage, untracked, dashEvent,
          eventCode, guestSession, guestData, fetching, upload, feed, del,
          edit, joinLog, hist, failures, started, createLog, auth, create, lookups,
          answers, cleared, request, coupleFeed, route, live>>

dbVars == <<default_quota, wedding_events, guests, photos, storage, untracked>>
coupleVars == <<dashEvent, createLog, coupleFeed>>
hookVars == <<auth, create, lookups, answers, cleared>>
pageVars == <<route, live>>

NoSession == [guestId |-> 0, weddingEventId |-> 0]
NoGuestData == [loaded |-> FALSE, photos_remaining |-> 0, has_unlocked_feed |-> FALSE]
ClosedUpload == [pc |-> "closed", fileExt |-> "", fileName |-> 0, caption |-> EmptyText,
                 inserted |-> 0,
                 photosRemaining |-> 0]
NoFeed == [loaded |-> FALSE, photos |-> {}]
NoDelete == [pc |-> "idle", deletePhotoId |-> 0, image_url |-> 0, removed |-> FALSE,
             photos_remaining |-> 0]
NoEdit == [editingPhotoId |-> 0, editCaption |-> EmptyText]
NoJoin == [typed |-> <<>>, event |-> -1]
NoCreate == [code |-> <<>>, outcome |-> "none"]
NoCall == [pc |-> "idle", weddingEventId |-> 0, user |-> 0, success |-> FALSE, error |-> FALSE]
\* A visitor of the couple pages is a signed-in couple or nobody (useAuth's user is null).
Visitors == Couples \cup {"nobody"}
NoCoupleFeed == [pc |-> "closed", eventCode |-> <<>>, weddingEvent |-> 0, photos |-> {},
                 loading |-> TRUE]
\* The feed component is not mounted: no channel, no fetch, an empty list.
NoLive == [channel |-> "none", fetch |-> "none", data |-> {}, inbox |-> <<>>, signing |-> {},
           photos |-> <<>>, loading |-> TRUE, missed |-> FALSE]
NoRequest == [n |-> 0, by |-> 0, couple |-> "none", table |-> "none", op |-> "none",
              id |-> 0, rows |-> {}]

Init ==
    /\ default_quota \in {QUOTA_V1, QUOTA_V2}
    /\ wedding_events = <<>>
    /\ guests = <<>>
    /\ photos = <<>>
    /\ storage = {}
    /\ untracked = <<>>
    /\ dashEvent = [u \in Couples |-> 0]
    /\ eventCode = [c \in Clients |-> <<>>]
    /\ guestSession = [c \in Clients |-> NoSession]
    /\ guestData = [c \in Clients |-> NoGuestData]
    /\ fetching = [c \in Clients |-> FALSE]
    /\ upload = [c \in Clients |-> ClosedUpload]
    /\ feed = [c \in Clients |-> NoFeed]
    /\ del = [c \in Clients |-> NoDelete]
    /\ edit = [c \in Clients |-> NoEdit]
    /\ joinLog = [c \in Clients |-> NoJoin]
    /\ hist = <<>>
    /\ failures = 0
    /\ started = 0
    /\ createLog = [u \in Couples |-> NoCreate]
    /\ auth = [c \in Clients |-> 0]
    /\ create = [c \in Clients |-> NoCall]
    /\ lookups = [c \in Clients |-> {}]
    /\ answers = [c \in Clients |-> {}]
    /\ cleared = [c \in Clients |-> FALSE]
    /\ request = NoRequest
    /\ coupleFeed = [v \in Visitors |-> NoCoupleFeed]
    /\ route = [c \in Clients |-> "join"]
    /\ live = [c \in Clients |-> NoLive]

(***************************************************************************)
(* Table helpers.                                                          *)
(***************************************************************************)
Insert(table, id, row) ==
    [k \in DOMAIN table \cup {id} |-> IF k = id THEN row ELSE table[k]]

Delete(table, id) == [k \in DOMAIN table \ {id} |-> table[k]]

Least(S) == CHOOSE x \in S : \A y \in S : x <= y

\* The identity the backend sees for a tab, auth.uid(): the anonymous principal
\* createGuestSession has signed in, whose id is the guest id; 0 when there is none.
AuthUid(c) == IF auth[c] # 0 THEN auth[c] ELSE guestSession[c].guestId

showUpload(c) == upload[c].pc # "closed"

LocalIds(c) == {row.id : row \in feed[c].photos}

(***************************************************************************)
(* The realtime publication of the photos table.                           *)
(***************************************************************************)
\* SELECT policy "Guests can view event photos", for a row of event e.
RowVisibleTo(c, e) ==
    \E g \in DOMAIN guests :
        g = AuthUid(c) /\ guests[g].wedding_event_id = e /\ guests[g].has_unlocked_feed

\* The tabs whose channel has joined with filter wedding_event_id=eq.e
Subscribers(e) ==
    {c \in Clients : live[c].channel = "joined" /\ guestSession[c].weddingEventId = e}

\* The tabs that have subscribed for event e and are not joined yet: a change
\* made now is not sent to them.
Joining(e) ==
    {c \in Clients : live[c].channel = "joining" /\ guestSession[c].weddingEventId = e}

\* The change reaches the tabs it is published to: an INSERT or an UPDATE those
\* whose identity may select the row, a DELETE every subscriber of the event.
Receivers(event, e) ==
    {c \in Subscribers(e) : event = "DELETE" \/ RowVisibleTo(c, e)}

\* A notification is held until its handler runs; at most MaxInbox are held.
CanPublish(e) == \A c \in Subscribers(e) : Len(live[c].inbox) < MaxInbox

\* ALTER PUBLICATION supabase_realtime ADD TABLE public.photos: a change of a row
\* of event e is sent to the channels.
Publish(event, p, e, changed) ==
    live' = [c \in Clients |->
                IF changed /\ c \in Receivers(event, e)
                THEN [live[c] EXCEPT !.inbox = Append(@, [event |-> event, id |-> p])]
                ELSE IF changed /\ c \in Joining(e)
                THEN [live[c] EXCEPT !.missed = TRUE]
                ELSE live[c]]

\* The photo ids tab c's feed component holds: in its list, in the answer of its
\* fetch, in a notification not handled yet, or in an INSERT handler under way.
LiveIds(c) ==
    {live[c].photos[i] : i \in 1..Len(live[c].photos)}
        \cup live[c].data \cup live[c].signing
        \cup {live[c].inbox[i].id : i \in 1..Len(live[c].inbox)}

\* Photo ids and object names are generated values; the model reuses a number
\* only when nothing in the backend or in any tab still refers to it.
Unused(f) ==
    /\ f \notin DOMAIN photos
    /\ f \notin storage
    /\ \A c \in Clients :
          /\ upload[c].fileName # f
          /\ del[c].deletePhotoId # f
          /\ edit[c].editingPhotoId # f
          /\ f \notin LocalIds(c)
          /\ f \notin LiveIds(c)

FreePhotoIds == {f \in PhotoIds : Unused(f)}

\* Guest ids are ids of identities, generated: an id no row, session, call or
\* pending lookup refers to.
FreeGuestIds ==
    {id \in GuestIds :
        /\ id \notin DOMAIN guests
        /\ \A c \in Clients : /\ auth[c] # id /\ id \notin lookups[c] /\ create[c].user # id
                             /\ \A a \in answers[c] : a.guestId # id}
FreeEventIds == EventIds \ DOMAIN wedding_events

Bump(n) == IF n < MaxCount THEN n + 1 ELSE n

\* A request to the backend succeeds or fails; at most MaxFailures requests fail.
Outcome(ok) ==
    IF ok THEN UNCHANGED failures
    ELSE failures < MaxFailures /\ failures' = failures + 1

(***************************************************************************)
(* Dashboard: creating an event.                                           *)
(***************************************************************************)
\* A column with no uniqueness constraint.
EventCodeAny(code) == TRUE

\* event_code TEXT NOT NULL UNIQUE
EventCodeUnique(code) ==
    \A e \in DOMAIN wedding_events : wedding_events[e].event_code # code

HandleCreateEvent(u, coupleName, partnerName, random) ==
    /\ dashEvent[u] = 0
    /\ FreeEventIds # {}
    /\ LET code == generateEventCode(coupleName, partnerName, random)
           id == Least(FreeEventIds)
       IN  IF EventCodeUnique(code)
           THEN /\ wedding_events' = Insert(wedding_events, id,
                        [couple_user_id |-> u, event_code |-> code])
                /\ dashEvent' = [dashEvent EXCEPT ![u] = id]
                /\ createLog' = [createLog EXCEPT ![u] = [code |-> code, outcome |-> "created"]]
           ELSE /\ createLog' = [createLog EXCEPT ![u] = [code |-> code, outcome |-> "error"]]
                /\ UNCHANGED <<wedding_events, dashEvent>>
    /\ UNCHANGED <<default_quota, guests, photos, storage, untracked, eventCode,
                   guestSession, guestData, fetching, upload, feed, del, edit, joinLog, hist,
                   failures, started, hookVars, request, coupleFeed, pageVars>>

(***************************************************************************)
(* JoinWedding.                                                            *)
(***************************************************************************)
\* onChange={(e) => setEventCode(e.target.value.toUpperCase())}
SetEventCode(c, value) ==
    /\ route[c] = "join"
    /\ guestSession[c] = NoSession
    /\ eventCode' = [eventCode EXCEPT ![c] = ToUpperCase(value)]
    /\ joinLog' = [joinLog EXCEPT ![c] = [typed |-> value, event |-> -1]]
    /\ UNCHANGED <<dbVars, coupleVars, pageVars, hookVars, request, failures, started, guestSession, guestData, fetching, upload,
                   feed, del, edit, hist>>

\* .eq("event_code", eventCode.toUpperCase().trim()).maybeSingle()
LookupEvent(text) ==
    {e \in DOMAIN wedding_events : wedding_events[e].event_code = NormalizeJoinCode(text)}

\* A guest row that starts with the quota of the first schema.
GuestRowAtJoinTen(e) ==
    [wedding_event_id |-> e, photos_remaining |-> QUOTA_V1, has_unlocked_feed |-> FALSE]

\* insert({ id, wedding_event_id, guest_name, session_token }): photos_remaining and
\* has_unlocked_feed take the column defaults.
GuestRowAtJoin(e) ==
    [wedding_event_id |-> e, photos_remaining |-> default_quota, has_unlocked_feed |-> FALSE]

HandleJoin(c, insertOk) ==
    /\ Outcome(insertOk)
    /\ route[c] = "join"
    /\ guestSession[c] = NoSession
    /\ eventCode[c] # <<>>
    /\ LET found == LookupEvent(eventCode[c])
       IN  IF found = {}
           THEN /\ joinLog' = [joinLog EXCEPT ![c].event = 0]
                /\ UNCHANGED <<guests, untracked, guestSession, fetching, eventCode, hist,
                               route>>
           ELSE LET e == Least(found)
                IN  /\ joinLog' = [joinLog EXCEPT ![c].event = e]
                    /\ IF insertOk /\ FreeGuestIds # {}
                       THEN LET g == Least(FreeGuestIds)
                            IN  /\ guests' = Insert(guests, g, GuestRowAtJoin(e))
                                /\ untracked' = Insert(untracked, g, 0)
                                /\ hist' = Insert(hist, g,
                                       [initial |-> default_quota, uploads |-> 0,
                                        deletes |-> 0, overlapped |-> FALSE,
                                        removed |-> 0, restored |-> 0])
                                /\ guestSession' = [guestSession EXCEPT ![c] =
                                       [guestId |-> g, weddingEventId |-> e]]
                                /\ fetching' = [fetching EXCEPT ![c] = TRUE]
                                /\ eventCode' = [eventCode EXCEPT ![c] = <<>>]
                                /\ route' = [route EXCEPT ![c] = "guest"]
                       ELSE UNCHANGED <<guests, untracked, guestSession, fetching,
                                        eventCode, hist, route>>
    /\ UNCHANGED <<default_quota, wedding_events, photos, storage, coupleVars, live, hookVars, request, started,
                   guestData, upload, feed, del, edit>>

\* A second tab of the same browser reads the stored session when it mounts.
OpenTab(c) ==
    /\ guestSession[c] = NoSession
    /\ \E d \in Clients \ {c} :
          /\ guestSession[d] # NoSession
          /\ guestSession' = [guestSession EXCEPT ![c] = guestSession[d]]
    /\ fetching' = [fetching EXCEPT ![c] = TRUE]
    /\ eventCode' = [eventCode EXCEPT ![c] = <<>>]
    /\ route' = [route EXCEPT ![c] = "guest"]
    /\ UNCHANGED <<dbVars, coupleVars, live, hookVars, request, failures, started, guestData, upload, feed, del, edit, joinLog, hist>>

(***************************************************************************)
(* Guest page.                                                             *)
(***************************************************************************)
\* The Guest page unmounts, and its components with it.
UnmountGuestPage(c) ==
    /\ guestData' = [guestData EXCEPT ![c] = NoGuestData]
    /\ fetching' = [fetching EXCEPT ![c] = FALSE]
    /\ upload' = [upload EXCEPT ![c] = ClosedUpload]
    /\ feed' = [feed EXCEPT ![c] = NoFeed]
    /\ del' = [del EXCEPT ![c] = NoDelete]
    /\ edit' = [edit EXCEPT ![c] = NoEdit]
    /\ live' = [live EXCEPT ![c] = NoLive]

\* A failed fetch that sends the guest to the join page with the session kept.
LeaveGuestPageKeepsSession(c) ==
    /\ UNCHANGED guestSession
    /\ route' = [route EXCEPT ![c] = "join"]
    /\ UnmountGuestPage(c)

\* clearGuestSession(); navigate("/join")
LeaveGuestPage(c) ==
    /\ guestSession' = [guestSession EXCEPT ![c] = NoSession]
    /\ route' = [route EXCEPT ![c] = "join"]
    /\ UnmountGuestPage(c)

\* The browser loads /guest: the page mounts with sessionLoading true, and the
\* hook's effect reads the stored session.
OpenGuestPage(c) ==
    /\ ~(upload[c].pc \in {"storage", "insert", "update"})
    /\ ~(del[c].pc \in {"storage", "db", "fetch", "update"})
    /\ route' = [route EXCEPT ![c] = "loading"]
    /\ eventCode' = [eventCode EXCEPT ![c] = <<>>]
    /\ UnmountGuestPage(c)
    /\ UNCHANGED <<dbVars, coupleVars, hookVars, request, failures, started,
                   guestSession, joinLog, hist>>

\* setLoading(false) of the hook: without a session the page navigates to /join,
\* with one it calls fetchData.
SessionLoaded(c) ==
    /\ route[c] = "loading"
    /\ IF guestSession[c] = NoSession
       THEN /\ route' = [route EXCEPT ![c] = "join"]
            /\ UNCHANGED fetching
       ELSE /\ route' = [route EXCEPT ![c] = "guest"]
            /\ fetching' = [fetching EXCEPT ![c] = TRUE]
    /\ UNCHANGED <<dbVars, coupleVars, hookVars, request, failures, started, eventCode,
                   guestSession, guestData, upload, feed, del, edit, joinLog, hist, live>>

FetchData(c, ok) ==
    /\ Outcome(ok)
    /\ fetching[c]
    /\ guestSession[c] # NoSession
    /\ IF ok /\ guestSession[c].guestId \in DOMAIN guests
       THEN /\ guestData' = [guestData EXCEPT ![c] =
                   [loaded |-> TRUE,
                    photos_remaining |-> guests[guestSession[c].guestId].photos_remaining,
                    has_unlocked_feed |-> guests[guestSession[c].guestId].has_unlocked_feed]]
            /\ fetching' = [fetching EXCEPT ![c] = FALSE]
            /\ UNCHANGED <<guestSession, upload, feed, del, edit, pageVars>>
       ELSE /\ del[c].pc \in {"idle", "dialog"}
            /\ upload[c].pc \in {"closed", "pick", "confirm"}
            /\ LeaveGuestPage(c)
    /\ UNCHANGED <<dbVars, coupleVars, hookVars, request, started, eventCode, joinLog, hist>>

\* The Capture button: disabled={photos_remaining === 0} on the locked screen,
\* rendered only when photos_remaining > 0 on the unlocked one.
CaptureOffered(gd) ==
    IF gd.has_unlocked_feed THEN gd.photos_remaining > 0 ELSE ~(gd.photos_remaining = 0)

FeedMounted(c) ==
    guestData[c].loaded /\ ~showUpload(c) /\ guestData[c].has_unlocked_feed

\* onClick={() => setShowUpload(true)}: PhotoUpload replaces the page, the feed unmounts.
OpenUpload(c) ==
    /\ guestData[c].loaded
    /\ ~showUpload(c)
    /\ del[c].pc = "idle"
    /\ CaptureOffered(guestData[c])
    /\ upload' = [upload EXCEPT ![c] = [ClosedUpload EXCEPT !.pc = "pick"]]
    /\ feed' = [feed EXCEPT ![c] = NoFeed]
    /\ edit' = [edit EXCEPT ![c] = NoEdit]
    /\ live' = [live EXCEPT ![c] = NoLive]
    /\ UNCHANGED <<dbVars, coupleVars, route, hookVars, request, failures, started, eventCode, guestSession, guestData, fetching,
                   del, joinLog, hist>>

\* onClose, offered while no upload is in flight.
CloseUpload(c) ==
    /\ upload[c].pc \in {"pick", "confirm"}
    /\ upload' = [upload EXCEPT ![c] = ClosedUpload]
    /\ UNCHANGED <<dbVars, coupleVars, pageVars, hookVars, request, failures, started, eventCode, guestSession, guestData, fetching,
                   feed, del, edit, joinLog, hist>>

(***************************************************************************)
(* PhotoUpload.                                                            *)
(***************************************************************************)
\* An image file is picked; fileExt is the extension of its name.
HandleFileSelect(c, fileExt) ==
    /\ upload[c].pc = "pick"
    /\ upload' = [upload EXCEPT ![c].pc = "confirm", ![c].fileExt = fileExt]
    /\ UNCHANGED <<dbVars, coupleVars, pageVars, hookVars, request, failures, started, eventCode, guestSession, guestData, fetching,
                   feed, del, edit, joinLog, hist>>

\* "Choose Another"
ChooseAnother(c) ==
    /\ upload[c].pc = "confirm"
    /\ upload' = [upload EXCEPT ![c] = [ClosedUpload EXCEPT !.pc = "pick"]]
    /\ UNCHANGED <<dbVars, coupleVars, pageVars, hookVars, request, failures, started, eventCode, guestSession, guestData, fetching,
                   feed, del, edit, joinLog, hist>>

SetCaption(c, value) ==
    /\ upload[c].pc = "confirm"
    /\ upload' = [upload EXCEPT ![c].caption = AcceptCaptionInput(@, value)]
    /\ UNCHANGED <<dbVars, coupleVars, pageVars, hookVars, request, failures, started, eventCode, guestSession, guestData, fetching,
                   feed, del, edit, joinLog, hist>>

\* Tab c has a request of an upload or of a delete in flight.
InFlight(c) ==
    upload[c].pc \in {"storage", "insert", "update"} \/ del[c].pc \in {"storage", "db", "fetch", "update"}

\* History: the operation tab c starts on its guest is not "one at a time":
\* another operation on the guest is in flight, or c has not re-fetched the guest row.
StartsOverlapped(c) ==
    LET g == guestSession[c].guestId
    IN  \/ fetching[c]
        \/ guestData[c].photos_remaining # guests[g].photos_remaining
        \/ guestData[c].has_unlocked_feed # guests[g].has_unlocked_feed
        \/ \E d \in Clients \ {c} : guestSession[d].guestId = g /\ InFlight(d)

\* A specification lets maxStarted operations start; Unlimited lets any number.
Unlimited == MaxStarted + 1

NoteStart(c, maxStarted) ==
    LET g == guestSession[c].guestId
    IN  /\ started < maxStarted
        /\ started' = Min(started + 1, MaxStarted)
        /\ hist' = [hist EXCEPT ![g].overlapped = @ \/ StartsOverlapped(c)]

\* Share pressed: handleUpload runs with the photosRemaining prop of this render.
\* fileName = `${guestId}/${Date.now()}.${fileExt}`: a name not in use.  Once the
\* names of PhotoIds are all in use the photo is Unnamed: its row is counted in
\* untracked, up to MaxUntracked, and no list or request names it again.
NewFileName == IF FreePhotoIds # {} THEN Least(FreePhotoIds) ELSE Unnamed

HandleUpload(c, maxStarted) ==
    /\ upload[c].pc = "confirm"
    /\ upload' = [upload EXCEPT ![c].pc = "storage",
                                ![c].fileName = NewFileName,
                                ![c].photosRemaining = guestData[c].photos_remaining]
    /\ NoteStart(c, maxStarted)
    /\ UNCHANGED <<dbVars, coupleVars, pageVars, hookVars, request, failures, eventCode, guestSession, guestData, fetching,
                   feed, del, edit, joinLog>>

\* A failure after which the upload goes on to the guest update.
UploadFailedGoesOn(c) ==
    upload' = [upload EXCEPT ![c].pc = "update"]

\* catch: toast, setUploading(false); the confirm view stays.
UploadFailed(c) ==
    upload' = [upload EXCEPT ![c].pc = "confirm", ![c].fileName = 0, ![c].photosRemaining = 0]

\* INSERT policy "Anyone can upload wedding photos" on storage.objects
AnyoneCanUpload(bucket_id) == bucket_id = "wedding-photos"

\* INSERT policy "Allow photo uploads" on storage.objects
AllowPhotoUploads(bucket_id, extension) ==
    /\ bucket_id = "wedding-photos"
    /\ \/ extension = "jpg"
       \/ extension = "jpeg"
       \/ extension = "png"
       \/ extension = "gif"
       \/ extension = "webp"

\* The INSERT policies of storage.objects are permissive: a row passes when one of
\* them passes.
StorageInsertAllowed(bucket_id, extension) ==
    AnyoneCanUpload(bucket_id) \/ AllowPhotoUploads(bucket_id, extension)

\* await supabase.storage.from("wedding-photos").upload(fileName, selectedFile)
UploadStorageStep(c, ok) ==
    /\ Outcome(ok)
    /\ upload[c].pc = "storage"
    /\ IF ok /\ StorageInsertAllowed("wedding-photos", upload[c].fileExt)
       THEN /\ storage' = storage \cup ({upload[c].fileName} \ {Unnamed})
            /\ upload' = [upload EXCEPT ![c].pc = "insert"]
       ELSE /\ UploadFailed(c)
            /\ UNCHANGED storage
    /\ UNCHANGED <<default_quota, wedding_events, guests, photos, untracked, coupleVars, pageVars, hookVars, request, started, eventCode,
                   guestSession, guestData, fetching, feed, del, edit, joinLog, hist>>

PhotoRowAtUpload(c) ==
    [wedding_event_id |-> guestSession[c].weddingEventId,
     guest_id |-> guestSession[c].guestId,
     image_url |-> upload[c].fileName,
     caption |-> CaptionToStore(upload[c].caption)]

\* INSERT policy "Guests can insert own photos": auth.uid() = guest_id
PhotoInsertAllowed(c, row) == AuthUid(c) = row.guest_id

\* await supabase.from("photos").insert({...})
UploadInsertStep(c, ok) ==
    /\ Outcome(ok)
    /\ upload[c].pc = "insert"
    /\ CanPublish(guestSession[c].weddingEventId)
    /\ LET row == PhotoRowAtUpload(c)
       IN  IF ok /\ PhotoInsertAllowed(c, row) /\ photos_caption_length(row.caption)
           THEN /\ IF upload[c].fileName = Unnamed
                   THEN /\ untracked' = [untracked EXCEPT ![row.guest_id] = Min(@ + 1, MaxUntracked)]
                        /\ UNCHANGED <<photos, live>>
                   ELSE /\ photos' = Insert(photos, upload[c].fileName, row)
                        /\ Publish("INSERT", upload[c].fileName, row.wedding_event_id, TRUE)
                        /\ UNCHANGED untracked
                /\ upload' = [upload EXCEPT ![c].pc = "update", ![c].inserted = Bump(@)]
           ELSE /\ UploadFailed(c)
                /\ UNCHANGED <<photos, untracked, live>>
    /\ UNCHANGED <<default_quota, wedding_events, guests, storage, coupleVars, route, hookVars, request, started, eventCode,
                   guestSession, guestData, fetching, feed, del, edit, joinLog, hist>>

\* An update that decrements the value the row holds when the update is applied.
GuestRowAfterUploadAtomic(row, photosRemaining) ==
    [row EXCEPT !.photos_remaining = @ - 1, !.has_unlocked_feed = TRUE]

\* An update of the quota that leaves the feed locked.
GuestRowAfterUploadLocked(row, photosRemaining) ==
    [row EXCEPT !.photos_remaining = photosRemaining - 1]

\* .update({ photos_remaining: photosRemaining - 1, has_unlocked_feed: true }).eq("id", guestId)
GuestRowAfterUpload(row, photosRemaining) ==
    [row EXCEPT !.photos_remaining = photosRemaining - 1, !.has_unlocked_feed = TRUE]

\* await supabase.from("guests").update(...); then onSuccess: fetchData(), setShowUpload(false)
UploadUpdateStep(c, ok) ==
    /\ Outcome(ok)
    /\ upload[c].pc = "update"
    /\ LET g == guestSession[c].guestId
       IN  IF ok
           THEN /\ guests' = [guests EXCEPT ![g] =
                       GuestRowAfterUpload(@, upload[c].photosRemaining)]
                /\ hist' = [hist EXCEPT ![g].uploads = Bump(@)]
                /\ upload' = [upload EXCEPT ![c] = ClosedUpload]
                /\ fetching' = [fetching EXCEPT ![c] = TRUE]
           ELSE /\ UploadFailed(c)
                /\ UNCHANGED <<guests, hist, fetching>>
    /\ UNCHANGED <<default_quota, wedding_events, photos, storage, untracked, coupleVars, pageVars, hookVars, request, started, eventCode,
                   guestSession, guestData, feed, del, edit, joinLog>>

(***************************************************************************)
(* PhotoSwipeFeed: the list, and the change notifications that keep it.    *)
(***************************************************************************)
\* A policy that shows every photo to every guest.
PhotoVisibleToAnyGuest(c, p) == AuthUid(c) \in DOMAIN guests

\* SELECT policy "Guests can view event photos"
PhotoVisibleTo(c, p) ==
    \E g \in DOMAIN guests :
        /\ g = AuthUid(c)
        /\ guests[g].wedding_event_id = photos[p].wedding_event_id
        /\ guests[g].has_unlocked_feed

LocalRow(p) ==
    [id |-> p, guest_id |-> photos[p].guest_id, image_url |-> photos[p].image_url,
     caption |-> photos[p].caption]

EventPhotos(c) ==
    {p \in DOMAIN photos :
        /\ photos[p].wedding_event_id = guestSession[c].weddingEventId
        /\ PhotoVisibleTo(c, p)}

FetchPhotos(c, ok) ==
    /\ Outcome(ok)
    /\ FeedMounted(c)
    /\ ~feed[c].loaded
    /\ feed' = [feed EXCEPT ![c] =
           [loaded |-> TRUE,
            photos |-> IF ok THEN {LocalRow(p) : p \in EventPhotos(c)} ELSE @.photos]]
    /\ UNCHANGED <<dbVars, coupleVars, pageVars, hookVars, request, started, eventCode, guestSession, guestData, fetching,
                   upload, del, edit, joinLog, hist>>

\* INSERT notification: setPhotos((prev) => [{ ...newPhoto, signedUrl }, ...prev])
RealtimeInsert(c, p) ==
    /\ feed[c].loaded
    /\ p \in EventPhotos(c)
    /\ p \notin LocalIds(c)
    /\ feed' = [feed EXCEPT ![c].photos = @ \cup {LocalRow(p)}]
    /\ UNCHANGED <<dbVars, coupleVars, pageVars, hookVars, request, failures, started, eventCode, guestSession, guestData, fetching,
                   upload, del, edit, joinLog, hist>>

\* DELETE notification: setPhotos((prev) => prev.filter((p) => p.id !== deletedPhoto.id))
RealtimeDelete(c, p) ==
    /\ feed[c].loaded
    /\ p \in LocalIds(c)
    /\ p \notin DOMAIN photos
    /\ feed' = [feed EXCEPT ![c].photos = {row \in @ : row.id # p}]
    /\ UNCHANGED <<dbVars, coupleVars, pageVars, hookVars, request, failures, started, eventCode, guestSession, guestData, fetching,
                   upload, del, edit, joinLog, hist>>

\* UPDATE notification: the caption of the local entry is replaced.
RealtimeUpdate(c, p) ==
    /\ feed[c].loaded
    /\ p \in LocalIds(c)
    /\ p \in DOMAIN photos
    /\ \E row \in feed[c].photos : row.id = p /\ row.caption # photos[p].caption
    /\ feed' = [feed EXCEPT ![c].photos =
           {IF row.id = p THEN [row EXCEPT !.caption = photos[p].caption] ELSE row : row \in @}]
    /\ UNCHANGED <<dbVars, coupleVars, pageVars, hookVars, request, failures, started, eventCode, guestSession, guestData, fetching,
                   upload, del, edit, joinLog, hist>>

(***************************************************************************)
(* PhotoSwipeFeed: the list as the component keeps it, step by step.  The  *)
(* effect sends the select and subscribes the channel; the select is       *)
(* answered, its rows get their signed URLs and setPhotos replaces the     *)
(* list; each notification runs its handler.                               *)
(***************************************************************************)
\* .order("captured_at", { ascending: false }): the rows of the answer as a list,
\* the order of capture being the order of the ids.
RECURSIVE NewestFirst(_)
NewestFirst(ids) ==
    IF ids = {} THEN <<>>
    ELSE LET newest == CHOOSE p \in ids : \A q \in ids : q <= p
         IN  <<newest>> \o NewestFirst(ids \ {newest})

\* prev.filter((p) => p.id !== deletedPhoto.id)
RECURSIVE WithoutId(_, _)
WithoutId(list, p) ==
    IF list = <<>> THEN <<>>
    ELSE IF Head(list) = p THEN WithoutId(Tail(list), p)
         ELSE <<Head(list)>> \o WithoutId(Tail(list), p)

LiveFrame ==
    UNCHANGED <<dbVars, coupleVars, route, hookVars, request, failures, started, eventCode,
                guestSession, guestData, fetching, upload, feed, del, edit, joinLog, hist>>

\* useEffect: fetchPhotos() sends the select, then the channel subscribes.
MountFeed(c) ==
    /\ FeedMounted(c)
    /\ live[c].fetch = "none"
    /\ live[c].channel = "none"
    /\ live' = [live EXCEPT ![c].fetch = "query", ![c].channel = "joining"]
    /\ LiveFrame

\* The realtime server takes the subscription: changes from now on are sent.
ChannelJoined(c) ==
    /\ live[c].channel = "joining"
    /\ live' = [live EXCEPT ![c].channel = "joined"]
    /\ LiveFrame

\* The select of fetchPhotos is answered with the rows of that moment; on an
\* error the list is left alone and loading ends.
FetchPhotosQuery(c, ok) ==
    /\ live[c].fetch = "query"
    /\ live' = IF ok
               THEN [live EXCEPT ![c].fetch = "signing", ![c].data = EventPhotos(c)]
               ELSE [live EXCEPT ![c].fetch = "failed", ![c].loading = FALSE]
    /\ LiveFrame

\* await Promise.all(...getSignedUrl...); setPhotos(photosWithUrls); setLoading(false)
setPhotos(c) ==
    /\ live[c].fetch = "signing"
    /\ live' = [live EXCEPT ![c].fetch = "done", ![c].loading = FALSE, ![c].data = {},
                            ![c].photos = NewestFirst(live[c].data)]
    /\ LiveFrame

\* The INSERT handler starts: it asks for the signed URL of the new photo.
OnInsert(c) ==
    /\ live[c].inbox # <<>>
    /\ Head(live[c].inbox).event = "INSERT"
    /\ live' = [live EXCEPT ![c].inbox = Tail(@),
                            ![c].signing = @ \cup {Head(live[c].inbox).id}]
    /\ LiveFrame

\* The signed URL is there: setPhotos((prev) => [{ ...newPhoto, signedUrl }, ...prev])
OnInsertSigned(c, p) ==
    /\ p \in live[c].signing
    /\ live' = [live EXCEPT ![c].signing = @ \ {p}, ![c].photos = <<p>> \o @]
    /\ LiveFrame

\* The DELETE handler: setPhotos((prev) => prev.filter((p) => p.id !== deletedPhoto.id))
OnDelete(c) ==
    /\ live[c].inbox # <<>>
    /\ Head(live[c].inbox).event = "DELETE"
    /\ live' = [live EXCEPT ![c].inbox = Tail(@),
                            ![c].photos = WithoutId(@, Head(live[c].inbox).id)]
    /\ LiveFrame

\* The UPDATE handler replaces the caption of the entry; the entries stay.
OnUpdate(c) ==
    /\ live[c].inbox # <<>>
    /\ Head(live[c].inbox).event = "UPDATE"
    /\ live' = [live EXCEPT ![c].inbox = Tail(@)]
    /\ LiveFrame

\* A feed that takes every guest for the owner.
isOwnerAnyone(c, row) == guestSession[c].guestId # 0

\* const isOwner = currentGuestId && photo.guest_id === currentGuestId
isOwner(c, row) == guestSession[c].guestId # 0 /\ row.guest_id = guestSession[c].guestId

\* The owner actions are rendered when isOwner && !isEditing.
OwnerActionsShown(c, row) ==
    /\ feed[c].loaded
    /\ row \in feed[c].photos
    /\ isOwner(c, row)
    /\ edit[c].editingPhotoId # row.id
    /\ del[c].pc = "idle"

(***************************************************************************)
(* PhotoSwipeFeed: caption edit.                                           *)
(***************************************************************************)
HandleEditCaption(c, row) ==
    /\ OwnerActionsShown(c, row)
    /\ edit' = [edit EXCEPT ![c] =
           [editingPhotoId |-> row.id,
            editCaption |-> IF row.caption.null THEN EmptyText ELSE row.caption]]
    /\ UNCHANGED <<dbVars, coupleVars, pageVars, hookVars, request, failures, started, eventCode, guestSession, guestData, fetching,
                   upload, feed, del, joinLog, hist>>

SetEditCaption(c, value) ==
    /\ edit[c].editingPhotoId # 0
    /\ edit' = [edit EXCEPT ![c].editCaption = AcceptCaptionInput(@, value)]
    /\ UNCHANGED <<dbVars, coupleVars, pageVars, hookVars, request, failures, started, eventCode, guestSession, guestData, fetching,
                   upload, feed, del, joinLog, hist>>

CancelEdit(c) ==
    /\ edit[c].editingPhotoId # 0
    /\ edit' = [edit EXCEPT ![c] = NoEdit]
    /\ UNCHANGED <<dbVars, coupleVars, pageVars, hookVars, request, failures, started, eventCode, guestSession, guestData, fetching,
                   upload, feed, del, joinLog, hist>>

\* A policy that lets every guest of the photo's event through.
PhotoOwnedByGuestOfEvent(uid, p) ==
    p \in DOMAIN photos /\ uid \in DOMAIN guests
        /\ guests[uid].wedding_event_id = photos[p].wedding_event_id

\* UPDATE policy "Guests can update own photos" and DELETE policy "Guests can delete own photos"
PhotoOwnedBy(uid, p) == p \in DOMAIN photos /\ uid = photos[p].guest_id

\* An update that writes the caption of every photo of the photo's guest.
UpdateCaptionOfGuest(uid, p, caption) ==
    IF PhotoOwnedBy(uid, p) /\ photos_caption_length(caption)
    THEN [q \in DOMAIN photos |->
             IF photos[q].guest_id = uid THEN [photos[q] EXCEPT !.caption = caption]
             ELSE photos[q]]
    ELSE photos

\* An UPDATE of photos.caption as the backend applies it: the row must pass the
\* owner policy and the new row the caption check.
UpdateCaption(uid, p, caption) ==
    IF PhotoOwnedBy(uid, p) /\ photos_caption_length(caption)
    THEN [photos EXCEPT ![p].caption = caption]
    ELSE photos

HandleSaveCaption(c, ok) ==
    /\ Outcome(ok)
    /\ edit[c].editingPhotoId # 0
    /\ CanPublish(guestSession[c].weddingEventId)
    /\ photos' = IF ok
                 THEN UpdateCaption(AuthUid(c), edit[c].editingPhotoId,
                                    CaptionToStore(edit[c].editCaption))
                 ELSE photos
    /\ Publish("UPDATE", edit[c].editingPhotoId, guestSession[c].weddingEventId,
               photos' # photos)
    /\ edit' = [edit EXCEPT ![c] = NoEdit]
    /\ UNCHANGED <<default_quota, wedding_events, guests, storage, untracked, coupleVars, route, hookVars, request, started, eventCode,
                   guestSession, guestData, fetching, upload, feed, del, joinLog, hist>>

(***************************************************************************)
(* Requests sent to the backend's table API outside the pages, with the    *)
(* identity of a tab or of a couple.  The row-level policies decide.       *)
(***************************************************************************)
\* History: the request just sent, by whom, on which row, and the rows a select returned.
ApiRequest(uid, table, op, id, rows) ==
    request' = [n |-> 1 - request.n, by |-> uid, couple |-> "none", table |-> table,
                op |-> op, id |-> id, rows |-> rows]

\* An update of a caption with any text.
ApiUpdateCaption(c, p, caption) ==
    /\ AuthUid(c) # 0
    /\ p \in DOMAIN photos
    /\ CanPublish(photos[p].wedding_event_id)
    /\ photos' = UpdateCaption(AuthUid(c), p, caption)
    /\ Publish("UPDATE", p, photos[p].wedding_event_id, photos' # photos)
    /\ ApiRequest(AuthUid(c), "photos", "update", p, {})
    /\ UNCHANGED <<default_quota, wedding_events, guests, storage, untracked, coupleVars, route, hookVars, failures, started, eventCode,
                   guestSession, guestData, fetching, upload, feed, del, edit, joinLog, hist>>

\* Ids of photo rows inserted through the API; no upload names an object so.
ApiPhotoIds == {MaxPhotos + 1}

\* An insert of a photo row for any guest and any event; the id is generated,
\* guest_id and wedding_event_id reference existing rows.
ApiInsertPhoto(c, p, e, guest_id) ==
    /\ AuthUid(c) # 0
    /\ Unused(p)
    /\ e \in DOMAIN wedding_events
    /\ guest_id \in DOMAIN guests
    /\ CanPublish(e)
    /\ LET row == [wedding_event_id |-> e, guest_id |-> guest_id, image_url |-> p,
                   caption |-> NULL]
       IN  /\ photos' = IF PhotoInsertAllowed(c, row) THEN Insert(photos, p, row) ELSE photos
           /\ Publish("INSERT", p, e, PhotoInsertAllowed(c, row))
    /\ ApiRequest(AuthUid(c), "photos", "insert", p, {})
    /\ UNCHANGED <<default_quota, wedding_events, guests, storage, untracked, coupleVars, route, hookVars, failures, started, eventCode,
                   guestSession, guestData, fetching, upload, feed, del, edit, joinLog, hist>>

\* A delete of a photo row.
ApiDeletePhoto(c, p) ==
    /\ AuthUid(c) # 0
    /\ p \in DOMAIN photos
    /\ CanPublish(photos[p].wedding_event_id)
    /\ photos' = IF PhotoOwnedBy(AuthUid(c), p) THEN Delete(photos, p) ELSE photos
    /\ Publish("DELETE", p, photos[p].wedding_event_id, PhotoOwnedBy(AuthUid(c), p))
    /\ hist' = IF PhotoOwnedBy(AuthUid(c), p)
               THEN [hist EXCEPT ![AuthUid(c)].removed = Bump(@)]
               ELSE hist
    /\ ApiRequest(AuthUid(c), "photos", "delete", p, {})
    /\ UNCHANGED <<default_quota, wedding_events, guests, storage, untracked, coupleVars, route, hookVars, failures, started, eventCode,
                   guestSession, guestData, fetching, upload, feed, del, edit, joinLog>>

\* SELECT policy "Couples can view event photos"
PhotoVisibleToCouple(u, p) ==
    \E e \in DOMAIN wedding_events :
        e = photos[p].wedding_event_id /\ wedding_events[e].couple_user_id = u

\* A select of the photo rows, with no filter.
ApiSelectPhotos(c) ==
    /\ AuthUid(c) # 0
    /\ ApiRequest(AuthUid(c), "photos", "select", 0, {p \in DOMAIN photos : PhotoVisibleTo(c, p)})
    /\ UNCHANGED <<dbVars, coupleVars, pageVars, hookVars, failures, started, eventCode,
                   guestSession, guestData, fetching, upload, feed, del, edit, joinLog, hist>>

(***************************************************************************)
(* PhotoSwipeFeed: delete.                                                 *)
(***************************************************************************)
SetDeletePhotoId(c, row) ==
    /\ OwnerActionsShown(c, row)
    /\ del' = [del EXCEPT ![c] = [NoDelete EXCEPT !.pc = "dialog", !.deletePhotoId = row.id]]
    /\ UNCHANGED <<dbVars, coupleVars, pageVars, hookVars, request, failures, started, eventCode, guestSession, guestData, fetching,
                   upload, feed, edit, joinLog, hist>>

CancelDelete(c) ==
    /\ del[c].pc = "dialog"
    /\ del' = [del EXCEPT ![c] = NoDelete]
    /\ UNCHANGED <<dbVars, coupleVars, pageVars, hookVars, request, failures, started, eventCode, guestSession, guestData, fetching,
                   upload, feed, edit, joinLog, hist>>

\* Delete confirmed: photoToDelete = photos.find((p) => p.id === deletePhotoId)
HandleDeletePhoto(c, maxStarted) ==
    /\ del[c].pc = "dialog"
    /\ IF del[c].deletePhotoId \in LocalIds(c)
       THEN /\ del' = [del EXCEPT ![c].pc = "storage", ![c].image_url = del[c].deletePhotoId]
            /\ NoteStart(c, maxStarted)
       ELSE /\ del' = [del EXCEPT ![c] = NoDelete]
            /\ UNCHANGED <<hist, started>>
    /\ UNCHANGED <<dbVars, coupleVars, pageVars, hookVars, request, failures, eventCode, guestSession, guestData, fetching,
                   upload, feed, edit, joinLog>>

\* A storage error that ends the delete.
StorageDeleteFailedAborts(c) == del' = [del EXCEPT ![c] = NoDelete]

\* if (storageError) console.error(...): "Continue anyway".
StorageDeleteFailed(c) == del' = [del EXCEPT ![c].pc = "db"]

\* await supabase.storage.from("wedding-photos").remove([...]): an error is logged and ignored.
DeleteStorageStep(c, ok) ==
    /\ Outcome(ok)
    /\ del[c].pc = "storage"
    /\ IF ok
       THEN /\ storage' = storage \ {del[c].image_url}
            /\ del' = [del EXCEPT ![c].pc = "db"]
       ELSE /\ StorageDeleteFailed(c)
            /\ UNCHANGED storage
    /\ UNCHANGED <<default_quota, wedding_events, guests, photos, untracked, coupleVars, pageVars, hookVars, request, started, eventCode,
                   guestSession, guestData, fetching, upload, feed, edit, joinLog, hist>>

\* A delete that goes on to the guest row whatever happened.
DeleteGoesOn(c) == del' = [del EXCEPT ![c].pc = "fetch"]

\* setDeleting(false); setDeletePhotoId(null)
DeleteDone(c) == del' = [del EXCEPT ![c] = NoDelete]

\* await supabase.from("photos").delete().eq("id", deletePhotoId); an error is thrown.
DeleteDbStep(c, ok) ==
    /\ Outcome(ok)
    /\ del[c].pc = "db"
    /\ CanPublish(guestSession[c].weddingEventId)
    /\ IF ok
       THEN /\ photos' = IF PhotoOwnedBy(AuthUid(c), del[c].deletePhotoId)
                         THEN Delete(photos, del[c].deletePhotoId)
                         ELSE photos
            /\ Publish("DELETE", del[c].deletePhotoId, guestSession[c].weddingEventId,
                       PhotoOwnedBy(AuthUid(c), del[c].deletePhotoId))
            /\ del' = [del EXCEPT ![c].pc = "fetch",
                                  ![c].removed = PhotoOwnedBy(AuthUid(c), del[c].deletePhotoId)]
            /\ hist' = IF PhotoOwnedBy(AuthUid(c), del[c].deletePhotoId)
                       THEN [hist EXCEPT ![AuthUid(c)].removed = Bump(@)]
                       ELSE hist
       ELSE /\ DeleteDone(c)
            /\ UNCHANGED <<photos, hist, live>>
    /\ UNCHANGED <<default_quota, wedding_events, guests, storage, untracked, coupleVars, route, hookVars, request, started, eventCode,
                   guestSession, guestData, fetching, upload, feed, edit, joinLog>>

\* onPhotoDeleted?.(): the page re-fetches the guest row.
OnPhotoDeleted(c) == fetching' = [fetching EXCEPT ![c] = TRUE]

\* await supabase.from("guests").select("photos_remaining").eq("id", currentGuestId).single()
DeleteFetchStep(c, ok) ==
    /\ Outcome(ok)
    /\ del[c].pc = "fetch"
    /\ IF ok
       THEN /\ del' = [del EXCEPT ![c].pc = "update",
                                  ![c].photos_remaining =
                                      guests[guestSession[c].guestId].photos_remaining]
            /\ UNCHANGED fetching
       ELSE /\ DeleteDone(c)
            /\ OnPhotoDeleted(c)
    /\ UNCHANGED <<dbVars, coupleVars, pageVars, hookVars, request, started, eventCode, guestSession, guestData,
                   upload, feed, edit, joinLog, hist>>

\* A restore with no cap.
newRemainingUncapped(photos_remaining) == photos_remaining + 1

\* const newRemaining = Math.min(guestData.photos_remaining + 1, 10)
newRemaining(photos_remaining) == Min(photos_remaining + 1, RESTORE_CAP)

\* A restore that also locks the feed again.
GuestRowAfterDeleteLocked(row, photos_remaining) ==
    [row EXCEPT !.photos_remaining = newRemaining(photos_remaining),
                !.has_unlocked_feed = FALSE]

\* .update({ photos_remaining: newRemaining }).eq("id", currentGuestId)
GuestRowAfterDelete(row, photos_remaining) ==
    [row EXCEPT !.photos_remaining = newRemaining(photos_remaining)]

\* await supabase.from("guests").update({ photos_remaining: newRemaining }); its error is not read.
DeleteUpdateStep(c, ok) ==
    /\ Outcome(ok)
    /\ del[c].pc = "update"
    /\ LET g == guestSession[c].guestId
       IN  IF ok
           THEN /\ guests' = [guests EXCEPT ![g] =
                                  GuestRowAfterDelete(@, del[c].photos_remaining)]
                /\ hist' = [hist EXCEPT
                       ![g].deletes = IF del[c].removed THEN Bump(@) ELSE @,
                       ![g].restored =
                           IF newRemaining(del[c].photos_remaining) > guests[g].photos_remaining
                           THEN Bump(@) ELSE @]
           ELSE UNCHANGED <<guests, hist>>
    /\ DeleteDone(c)
    /\ OnPhotoDeleted(c)
    /\ UNCHANGED <<default_quota, wedding_events, photos, storage, untracked, coupleVars, pageVars, hookVars, request, started, eventCode,
                   guestSession, guestData, upload, feed, edit, joinLog>>

(***************************************************************************)
(* useGuestSession with anonymous sign-in.                                 *)
(***************************************************************************)
\* INSERT policy "Guests can create their own session": auth.uid() = id
GuestInsertAllowed(uid, id) == uid # 0 /\ uid = id

\* SELECT policy "Guests can view own session": auth.uid() = id
GuestSelectAllowed(uid, g) == uid # 0 /\ uid = g

\* An update policy that lets every signed-in identity write every guest row.
GuestUpdateAllowedToAll(uid, g) == uid # 0

\* UPDATE policy "Guests can update own session": auth.uid() = id, before and after
GuestUpdateAllowed(uid, g) == uid # 0 /\ uid = g

\* SELECT policy "Couples can view event guests"
GuestVisibleToCouple(u, g) ==
    \E e \in DOMAIN wedding_events :
        e = guests[g].wedding_event_id /\ wedding_events[e].couple_user_id = u

\* The guests table with a new row, and the history of the new guest.
InsertGuest(id, e) ==
    /\ guests' = Insert(guests, id, GuestRowAtJoin(e))
    /\ untracked' = Insert(untracked, id, 0)
    /\ hist' = Insert(hist, id,
           [initial |-> default_quota, uploads |-> 0, deletes |-> 0, overlapped |-> FALSE,
            removed |-> 0, restored |-> 0])

\* createGuestSession(weddingEventId, guestName) is called.
CreateGuestSession(c, weddingEventId) ==
    /\ create[c].pc \in {"idle", "returned"}
    /\ create' = [create EXCEPT ![c] = [NoCall EXCEPT !.pc = "signin",
                                                       !.weddingEventId = weddingEventId]]
    /\ UNCHANGED <<dbVars, coupleVars, pageVars, auth, lookups, answers, cleared, request, failures, started, eventCode,
                   guestSession, guestData, fetching, upload, feed, del, edit, joinLog, hist>>

\* return { success: false, error }
ReturnFailure(c) ==
    create' = [create EXCEPT ![c].pc = "returned", ![c].success = FALSE, ![c].error = TRUE]

\* await supabase.auth.signInAnonymously(); the listener of onAuthStateChange defers
\* a lookup of the guest row of the new identity.
SignInStep(c, ok) ==
    /\ Outcome(ok)
    /\ create[c].pc = "signin"
    /\ IF ok
       THEN /\ FreeGuestIds # {}
            /\ LET user == Least(FreeGuestIds)
               IN  /\ auth' = [auth EXCEPT ![c] = user]
                   /\ lookups' = [lookups EXCEPT ![c] = @ \cup {user}]
                   /\ create' = [create EXCEPT ![c].pc = "insert", ![c].user = user]
       ELSE /\ ReturnFailure(c)
            /\ UNCHANGED <<auth, lookups>>
    /\ UNCHANGED <<dbVars, coupleVars, pageVars, answers, cleared, request, started, eventCode,
                   guestSession, guestData, fetching, upload, feed, del, edit, joinLog, hist>>

\* A failed insert after which the function returns with the identity signed in.
GuestInsertFailedReturns(c) == ReturnFailure(c)

\* if (guestError): the function goes on to sign the identity out.
GuestInsertFailed(c) == create' = [create EXCEPT ![c].pc = "signout", ![c].error = TRUE]

\* await supabase.from("guests").insert({ id: authData.user.id, wedding_event_id, ... });
\* then setGuestSession({ guestId: authData.user.id, weddingEventId }); return { success: true }
GuestInsertStep(c, ok) ==
    /\ Outcome(ok)
    /\ create[c].pc = "insert"
    /\ LET id == create[c].user
           e == create[c].weddingEventId
       IN  IF /\ ok
              /\ GuestInsertAllowed(AuthUid(c), id)
              /\ id \notin DOMAIN guests
              /\ e \in DOMAIN wedding_events
           THEN /\ InsertGuest(id, e)
                /\ guestSession' = [guestSession EXCEPT ![c] =
                       [guestId |-> id, weddingEventId |-> e]]
                /\ create' = [create EXCEPT ![c].pc = "returned", ![c].success = TRUE]
                /\ cleared' = [cleared EXCEPT ![c] = FALSE]
           ELSE /\ GuestInsertFailed(c)
                /\ UNCHANGED <<guests, untracked, hist, guestSession, cleared>>
    /\ UNCHANGED <<default_quota, wedding_events, photos, storage, coupleVars, pageVars, auth, lookups, answers,
                   request, started, eventCode, guestData, fetching, upload, feed, del, edit,
                   joinLog>>

\* await supabase.auth.signOut(): the session is removed and the listener, on
\* SIGNED_OUT, sets guestSession to null; then return { success: false, error }.
SignOutStep(c) ==
    /\ create[c].pc = "signout"
    /\ auth' = [auth EXCEPT ![c] = 0]
    /\ guestSession' = [guestSession EXCEPT ![c] = NoSession]
    /\ ReturnFailure(c)
    /\ UNCHANGED <<dbVars, coupleVars, pageVars, lookups, answers, cleared, request, failures, started, eventCode,
                   guestData, fetching, upload, feed, del, edit, joinLog, hist>>

\* The deferred lookup of the listener, and checkSession's: the guest row whose id
\* is the identity's is selected, with the identity the tab has by then.  A row
\* that is found is on its way to the tab; without one nothing is set.
GuestLookup(c, user, ok) ==
    /\ Outcome(ok)
    /\ user \in lookups[c]
    /\ lookups' = [lookups EXCEPT ![c] = @ \ {user}]
    /\ answers' =
           IF ok /\ user \in DOMAIN guests /\ GuestSelectAllowed(AuthUid(c), user)
           THEN [answers EXCEPT ![c] = @ \cup
                    {[guestId |-> user, weddingEventId |-> guests[user].wedding_event_id]}]
           ELSE answers
    /\ UNCHANGED <<dbVars, coupleVars, pageVars, auth, create, cleared, request, started, eventCode,
                   guestSession, guestData, fetching, upload, feed, del, edit, joinLog, hist>>

\* The answer of the select arrives: if (guest) setGuestSession({ guestId: guest.id, ... })
GuestFound(c, guest) ==
    /\ guest \in answers[c]
    /\ answers' = [answers EXCEPT ![c] = @ \ {guest}]
    /\ guestSession' = [guestSession EXCEPT ![c] = guest]
    /\ UNCHANGED <<dbVars, coupleVars, pageVars, auth, create, lookups, cleared, request, failures,
                   started, eventCode, guestData, fetching, upload, feed, del, edit, joinLog, hist>>

\* clearGuestSession: await supabase.auth.signOut(); setGuestSession(null)
ClearGuestSession(c) ==
    /\ auth[c] # 0
    /\ auth' = [auth EXCEPT ![c] = 0]
    /\ guestSession' = [guestSession EXCEPT ![c] = NoSession]
    /\ cleared' = [cleared EXCEPT ![c] = TRUE]
    /\ UNCHANGED <<dbVars, coupleVars, pageVars, create, lookups, answers, request, failures, started, eventCode,
                   guestData, fetching, upload, feed, del, edit, joinLog, hist>>

\* The page is loaded again: the hook's state starts over and checkSession looks
\* the guest of the stored identity up.
CheckSession(c) ==
    /\ auth[c] # 0
    /\ guestSession' = [guestSession EXCEPT ![c] = NoSession]
    /\ create' = [create EXCEPT ![c] = NoCall]
    /\ lookups' = [lookups EXCEPT ![c] = {auth[c]}]
    /\ answers' = [answers EXCEPT ![c] = {}]
    /\ UNCHANGED <<dbVars, coupleVars, pageVars, auth, cleared, request, failures, started, eventCode,
                   guestData, fetching, upload, feed, del, edit, joinLog, hist>>

\* An insert of a guest row with any id, sent to the API with tab c's identity.
ApiInsertGuest(c, id, e) ==
    /\ AuthUid(c) # 0
    /\ e \in DOMAIN wedding_events
    /\ IF GuestInsertAllowed(AuthUid(c), id) /\ id \notin DOMAIN guests
       THEN InsertGuest(id, e)
       ELSE UNCHANGED <<guests, untracked, hist>>
    /\ ApiRequest(AuthUid(c), "guests", "insert", id, {})
    /\ UNCHANGED <<default_quota, wedding_events, photos, storage, coupleVars, pageVars, hookVars,
                   failures, started, eventCode, guestSession, guestData, fetching, upload,
                   feed, del, edit, joinLog>>

\* An update of the quota and of the flag of guest row g, sent to the API.
ApiUpdateGuest(c, g, photos_remaining, has_unlocked_feed) ==
    /\ AuthUid(c) # 0
    /\ g \in DOMAIN guests
    /\ guests' = IF GuestUpdateAllowed(AuthUid(c), g)
                 THEN [guests EXCEPT ![g].photos_remaining = photos_remaining,
                                     ![g].has_unlocked_feed = has_unlocked_feed]
                 ELSE guests
    /\ ApiRequest(AuthUid(c), "guests", "update", g, {})
    /\ UNCHANGED <<default_quota, wedding_events, photos, storage, untracked, coupleVars, pageVars,
                   hookVars, failures, started, eventCode, guestSession, guestData, fetching,
                   upload, feed, del, edit, joinLog, hist>>

\* A select of the guests table with no filter, sent with tab c's identity.
ApiSelectGuests(c) ==
    /\ AuthUid(c) # 0
    /\ ApiRequest(AuthUid(c), "guests", "select", 0,
                  {g \in DOMAIN guests : GuestSelectAllowed(AuthUid(c), g)})
    /\ UNCHANGED <<dbVars, coupleVars, pageVars, hookVars, failures, started, eventCode,
                   guestSession, guestData, fetching, upload, feed, del, edit, joinLog, hist>>

\* A select of the guests table with no filter, sent by couple u.
CoupleSelectGuests(u) ==
    /\ request' = [n |-> 1 - request.n, by |-> 0, couple |-> u, table |-> "guests",
                   op |-> "select", id |-> 0,
                   rows |-> {g \in DOMAIN guests : GuestVisibleToCouple(u, g)}]
    /\ UNCHANGED <<dbVars, coupleVars, pageVars, hookVars, failures, started, eventCode,
                   guestSession, guestData, fetching, upload, feed, del, edit, joinLog, hist>>

(***************************************************************************)
(* CoupleFeed.                                                             *)
(***************************************************************************)
\* SELECT policies "Anyone can view events" and "Couples can view own events"
EventVisibleTo(v, e) == TRUE \/ wedding_events[e].couple_user_id = v

\* A check that takes every signed-in user for the owner.
OwnsEventAny(v, e) == v \in Couples

\* event.couple_user_id !== user.id sends the user back to the dashboard.
OwnsEvent(v, e) == wedding_events[e].couple_user_id = v

\* The page mounts on /feed/:eventCode once useAuth has loaded: without a user it
\* navigates to /auth, with one it starts fetchEventAndPhotos.
OpenCoupleFeed(v, code) ==
    /\ coupleFeed[v].pc \in {"closed", "auth", "dashboard", "shown"}
    /\ coupleFeed' = [coupleFeed EXCEPT ![v] =
           IF v \notin Couples THEN [NoCoupleFeed EXCEPT !.pc = "auth"]
           ELSE IF code = <<>> THEN [NoCoupleFeed EXCEPT !.pc = "dashboard"]
           ELSE [NoCoupleFeed EXCEPT !.pc = "event", !.eventCode = code]]
    /\ UNCHANGED <<dbVars, dashEvent, createLog, hookVars, pageVars, request, failures, started,
                   eventCode, guestSession, guestData, fetching, upload, feed, del, edit,
                   joinLog, hist>>

\* from("wedding_events").select("*").eq("event_code", eventCode).maybeSingle(), then
\* the owner check and setWeddingEvent(event)
CoupleFeedEventStep(v, ok) ==
    /\ Outcome(ok)
    /\ coupleFeed[v].pc = "event"
    /\ LET found == {e \in DOMAIN wedding_events :
                        /\ wedding_events[e].event_code = coupleFeed[v].eventCode
                        /\ EventVisibleTo(v, e)}
       IN  coupleFeed' = [coupleFeed EXCEPT ![v] =
               IF ~ok \/ found = {} THEN [@ EXCEPT !.pc = "dashboard"]
               ELSE IF ~OwnsEvent(v, Least(found)) THEN [@ EXCEPT !.pc = "dashboard"]
               ELSE [@ EXCEPT !.pc = "photos", !.weddingEvent = Least(found)]]
    /\ UNCHANGED <<dbVars, dashEvent, createLog, hookVars, pageVars, request, started,
                   eventCode, guestSession, guestData, fetching, upload, feed, del, edit,
                   joinLog, hist>>

\* from("photos").select("*").eq("wedding_event_id", event.id); setPhotos; setLoading(false)
CoupleFeedPhotosStep(v, ok) ==
    /\ Outcome(ok)
    /\ coupleFeed[v].pc = "photos"
    /\ LET photosData == {p \in DOMAIN photos :
                             /\ photos[p].wedding_event_id = coupleFeed[v].weddingEvent
                             /\ PhotoVisibleToCouple(v, p)}
       IN  coupleFeed' = [coupleFeed EXCEPT ![v].pc = "shown", ![v].loading = FALSE,
                                            ![v].photos = IF ok THEN photosData ELSE @]
    /\ UNCHANGED <<dbVars, dashEvent, createLog, hookVars, pageVars, request, started,
                   eventCode, guestSession, guestData, fetching, upload, feed, del, edit,
                   joinLog, hist>>

(***************************************************************************)
(* Specifications.                                                         *)
(***************************************************************************)
\* Inputs of the specifications below: a file named .jpg, one couple and its names,
\* one random suffix, the code typed exactly, and two caption texts.
FileExts == {"jpg"}
CoupleNames == {<<"a">>}
PartnerNames == {<<"b">>}
RandomSuffixes == {<<"1">>}
TypedCodes == {<<"a", "b", "-", "1">>}
Captions == {EmptyText, Text(0, 1, 0)}

CreateEvent(couples, coupleNames, randoms) ==
    \E u \in couples, coupleName \in coupleNames, partnerName \in PartnerNames,
       random \in randoms :
          HandleCreateEvent(u, coupleName, partnerName, random)

Join(c, typed) ==
    \/ \E value \in typed : SetEventCode(c, value)
    \/ \E ok \in BOOLEAN : HandleJoin(c, ok)

\* The steps of one tab that uploads and lists photos.  The tab starts an upload
\* while fewer than maxStarted operations have started.
UploadPage(c, maxStarted) ==
    \/ FetchData(c, TRUE)
    \/ OpenUpload(c)
    \/ CloseUpload(c)
    \/ \E fileExt \in FileExts : HandleFileSelect(c, fileExt)
    \/ ChooseAnother(c)
    \/ HandleUpload(c, maxStarted)
    \/ \E ok \in BOOLEAN : UploadStorageStep(c, ok)
    \/ \E ok \in BOOLEAN : UploadInsertStep(c, ok)
    \/ \E ok \in BOOLEAN : UploadUpdateStep(c, ok)
    \/ \E ok \in BOOLEAN : FetchPhotos(c, ok)
    \/ \E p \in PhotoIds : RealtimeInsert(c, p)

\* The steps of one tab that deletes photos.
DeletePage(c, maxStarted) ==
    \/ \E p \in PhotoIds : RealtimeDelete(c, p)
    \/ \E row \in feed[c].photos : SetDeletePhotoId(c, row)
    \/ CancelDelete(c)
    \/ HandleDeletePhoto(c, maxStarted)
    \/ \E ok \in BOOLEAN : DeleteStorageStep(c, ok)
    \/ \E ok \in BOOLEAN : DeleteDbStep(c, ok)
    \/ \E ok \in BOOLEAN : DeleteFetchStep(c, ok)
    \/ \E ok \in BOOLEAN : DeleteUpdateStep(c, ok)

\* The steps of one tab on the guest page: the quota, upload, list and delete.
Page(c, maxStarted) ==
    \/ UploadPage(c, maxStarted)
    \/ DeletePage(c, maxStarted)

\* The caption edit of one tab's feed.
EditPage(c, captions) ==
    \/ \E row \in feed[c].photos : HandleEditCaption(c, row)
    \/ \E value \in captions : SetEditCaption(c, value)
    \/ CancelEdit(c)
    \/ \E ok \in BOOLEAN : HandleSaveCaption(c, ok)

\* The caption steps of one tab.
CaptionPage(c, captions) ==
    \/ \E value \in captions : SetCaption(c, value)
    \/ \E p \in PhotoIds : RealtimeUpdate(c, p)
    \/ \E row \in feed[c].photos : HandleEditCaption(c, row)
    \/ \E value \in captions : SetEditCaption(c, value)
    \/ CancelEdit(c)
    \/ \E ok \in BOOLEAN : HandleSaveCaption(c, ok)

\* The two-tab specification: one guest joins in tab c1, tab c2 opens on the stored
\* session; the tabs start MaxStarted uploads and deletes in all.
Next ==
    \/ CreateEvent({"u1"}, CoupleNames, RandomSuffixes)
    \/ Join("c1", TypedCodes)
    \/ OpenTab("c2")
    \/ \E c \in Clients : Page(c, MaxStarted)

Spec == Init /\ [][Next]_vars

\* The quota specification: one guest in one tab, any number of uploads, deletes
\* and caption edits.
NextQuota ==
    \/ CreateEvent({"u1"}, CoupleNames, RandomSuffixes)
    \/ Join("c1", TypedCodes)
    \/ Page("c1", Unlimited)
    \/ CaptionPage("c1", Captions)

SpecQuota == Init /\ [][NextQuota]_vars

\* The session specification: one guest in one tab uploads, deletes and edits
\* captions; a failed fetch of the guest row clears the session, after which the
\* visitor can join again as a new guest.
NextUnlock ==
    \/ CreateEvent({"u1"}, CoupleNames, RandomSuffixes)
    \/ Join("c1", TypedCodes)
    \/ Page("c1", MaxStarted)
    \/ FetchData("c1", FALSE)
    \/ CaptionPage("c1", Captions)

SpecUnlock == Init /\ [][NextUnlock]_vars

\* The caption specification: one guest in one tab uploads photos and types
\* captions that are empty, blank, padded, of the greatest length and one longer,
\* and sends caption updates to the backend directly, among them an empty text and
\* one too long.
TypedCaptions ==
    {EmptyText, Text(1, 0, 0), Text(1, 1, 1), Text(0, MAX_CAPTION_LENGTH, 0),
     Text(0, MAX_CAPTION_LENGTH + 1, 0)}

ApiCaptions ==
    {NULL, EmptyText, Text(1, 0, 0), Text(0, CAPTION_MAX, 0), Text(0, CAPTION_MAX + 1, 0)}

NextCaption ==
    \/ CreateEvent({"u1"}, CoupleNames, RandomSuffixes)
    \/ Join("c1", TypedCodes)
    \/ UploadPage("c1", MaxStarted)
    \/ CaptionPage("c1", TypedCaptions)
    \/ \E p \in PhotoIds, caption \in ApiCaptions : ApiUpdateCaption("c1", p, caption)

SpecCaption == Init /\ [][NextCaption]_vars

\* The join specification: two couples create events, one from a name that starts
\* with a blank; two visitors type codes in either case, padded with blanks, with a
\* blank inside, and blank only.
JoinCoupleNames == {<<"a">>, <<" ", "a">>}
JoinSuffixes == {<<"1">>, <<"x">>}
JoinTexts ==
    {<<"A", "B", "-", "1">>, <<" ", "a", "b", "-", "1">>, <<"a", "B", "-", "1", " ">>,
     <<" ", "A", "b", "-", "x", " ">>, <<"a", " ", "b", "-", "1">>, <<" ">>}

NextJoin ==
    \/ CreateEvent(Couples, JoinCoupleNames, JoinSuffixes)
    \/ \E c \in Clients : Join(c, JoinTexts)

SpecJoin == Init /\ [][NextJoin]_vars

\* The edit specification: one guest in one tab uploads one photo, inserts a second
\* photo row through the API, edits captions in the feed and writes another text
\* through the API.
EditCaptions == {Text(0, 1, 0)}
OtherCaptions == {Text(0, 2, 0)}

NextEdit ==
    \/ CreateEvent({"u1"}, CoupleNames, RandomSuffixes)
    \/ Join("c1", TypedCodes)
    \/ UploadPage("c1", 1)
    \/ \E p \in ApiPhotoIds, e \in EventIds, g \in GuestIds : ApiInsertPhoto("c1", p, e, g)
    \/ \E p \in ApiPhotoIds : RealtimeInsert("c1", p)
    \/ \E p \in PhotoIds \cup ApiPhotoIds : RealtimeUpdate("c1", p)
    \/ EditPage("c1", EditCaptions)
    \/ \E p \in PhotoIds \cup ApiPhotoIds, caption \in OtherCaptions :
           ApiUpdateCaption("c1", p, caption)

SpecEdit == Init /\ [][NextEdit]_vars

\* The owner specification: two guests of one event.  The guest of tab c1 uploads,
\* lists, edits and deletes; the guest of tab c2 sends inserts of photo rows for
\* either guest, and updates and deletes of any photo row, to the API.
NextOwner ==
    \/ CreateEvent({"u1"}, CoupleNames, RandomSuffixes)
    \/ \E c \in Clients : Join(c, TypedCodes)
    \/ UploadPage("c1", MaxStarted - 1)
    \/ DeletePage("c1", MaxStarted)
    \/ EditPage("c1", EditCaptions)
    \/ \E p \in ApiPhotoIds : RealtimeInsert("c1", p)
    \/ \E p \in ApiPhotoIds : RealtimeDelete("c1", p)
    \/ \E p \in PhotoIds \cup ApiPhotoIds : RealtimeUpdate("c1", p)
    \/ \E p \in ApiPhotoIds, e \in EventIds, g \in GuestIds : ApiInsertPhoto("c2", p, e, g)
    \/ \E p \in PhotoIds \cup ApiPhotoIds, caption \in OtherCaptions :
           ApiUpdateCaption("c2", p, caption)
    \/ \E p \in PhotoIds \cup ApiPhotoIds : ApiDeletePhoto("c2", p)

SpecOwner == Init /\ [][NextOwner]_vars

\* The feed specification: two couples create an event each, the visitors of the
\* two tabs join either.  The guest of tab c1 uploads and lists photos; the guest
\* of tab c2 inserts photo rows and reads the photos table through the API.
OtherSuffixes == {<<"x">>}
FeedCodes == {<<"a", "b", "-", "1">>, <<"a", "b", "-", "x">>}

NextFeed ==
    \/ CreateEvent({"u1"}, CoupleNames, RandomSuffixes)
    \/ CreateEvent({"u2"}, CoupleNames, OtherSuffixes)
    \/ \E c \in Clients : Join(c, FeedCodes)
    \/ FetchData("c2", TRUE)
    \/ UploadPage("c1", MaxStarted - 1)
    \/ \E p \in ApiPhotoIds : RealtimeInsert("c1", p)
    \/ \E p \in ApiPhotoIds, e \in EventIds, g \in GuestIds : ApiInsertPhoto("c2", p, e, g)
    \/ ApiSelectPhotos("c2")

SpecFeed == Init /\ [][NextFeed]_vars

\* The session specification of the anonymous sign-in: a couple creates an event;
\* in one browser createGuestSession is called for an event id that exists or not,
\* the deferred lookups run, the page is loaded again and the session is cleared.
SignUp(c) ==
    \/ \E e \in EventIds : CreateGuestSession(c, e)
    \/ \E ok \in BOOLEAN : SignInStep(c, ok)
    \/ \E ok \in BOOLEAN : GuestInsertStep(c, ok)
    \/ SignOutStep(c)

Hook(c) ==
    \/ SignUp(c)
    \/ \E user \in GuestIds, ok \in BOOLEAN : GuestLookup(c, user, ok)
    \/ \E guest \in answers[c] : GuestFound(c, guest)
    \/ ClearGuestSession(c)
    \/ CheckSession(c)

NextSession ==
    \/ CreateEvent({"u1"}, CoupleNames, RandomSuffixes)
    \/ Hook("c1")

SpecSession == Init /\ [][NextSession]_vars

\* The policy specification: a couple creates an event; a visitor joins in tab c1,
\* createGuestSession is called in the browser of tab c2, whose identity sends
\* inserts, updates and selects of guest rows and inserts of photo rows to the
\* API, for any guest; each couple selects the guest rows.
WrittenQuotas == {QUOTA_V2}

NextPolicy ==
    \/ CreateEvent({"u1"}, CoupleNames, RandomSuffixes)
    \/ Join("c1", TypedCodes)
    \/ SignUp("c2")
    \/ \E id \in GuestIds, e \in EventIds : ApiInsertGuest("c2", id, e)
    \/ \E g \in GuestIds, r \in WrittenQuotas : ApiUpdateGuest("c2", g, r, TRUE)
    \/ ApiSelectGuests("c2")
    \/ \E u \in Couples : CoupleSelectGuests(u)
    \/ \E p \in ApiPhotoIds, e \in EventIds, g \in GuestIds : ApiInsertPhoto("c2", p, e, g)

\* The schema after the last migration.
InitPolicy == Init /\ default_quota = QUOTA_V2

SpecPolicy == InitPolicy /\ [][NextPolicy]_vars

\* The storage specification: one guest in one tab uploads image files named .jpg
\* and .heic.
OtherExts == {"heic"}

NextStorage ==
    \/ CreateEvent({"u1"}, CoupleNames, RandomSuffixes)
    \/ Join("c1", TypedCodes)
    \/ UploadPage("c1", MaxStarted)
    \/ \E fileExt \in OtherExts : HandleFileSelect("c1", fileExt)

SpecStorage == Init /\ [][NextStorage]_vars

\* The couple specification: two couples create an event each, a guest of the
\* first uploads a photo; both couples and a visitor who is not signed in open the
\* couple feed of either event, of a code in lower case, which no event has, and
\* of no code.
RouteCodes == {<<"A", "B", "-", "1">>, <<"A", "B", "-", "X">>, <<"a", "b", "-", "1">>, <<>>}

NextCouple ==
    \/ CreateEvent({"u1"}, CoupleNames, RandomSuffixes)
    \/ CreateEvent({"u2"}, CoupleNames, OtherSuffixes)
    \/ Join("c1", TypedCodes)
    \/ UploadPage("c1", 1)
    \/ \E v \in Visitors, code \in RouteCodes : OpenCoupleFeed(v, code)
    \/ \E v \in Visitors, ok \in BOOLEAN : CoupleFeedEventStep(v, ok)
    \/ \E v \in Visitors, ok \in BOOLEAN : CoupleFeedPhotosStep(v, ok)

SpecCouple == Init /\ [][NextCouple]_vars

\* The live-feed specification: a couple creates an event and the visitors of the
\* two tabs join it.  The guest of tab c1 uploads one photo, which unlocks the
\* feed, and the feed component of that tab runs step by step; the guest of tab
\* c2 inserts a photo row, changes its caption and deletes it through the API.
LiveFeed(c) ==
    \/ MountFeed(c)
    \/ ChannelJoined(c)
    \/ \E ok \in BOOLEAN : FetchPhotosQuery(c, ok)
    \/ setPhotos(c)
    \/ OnInsert(c)
    \/ \E p \in PhotoIds \cup ApiPhotoIds : OnInsertSigned(c, p)
    \/ OnDelete(c)
    \/ OnUpdate(c)

UploadOnce(c) ==
    \/ FetchData(c, TRUE)
    \/ OpenUpload(c)
    \/ \E fileExt \in FileExts : HandleFileSelect(c, fileExt)
    \/ HandleUpload(c, 1)
    \/ UploadStorageStep(c, TRUE)
    \/ UploadInsertStep(c, TRUE)
    \/ UploadUpdateStep(c, TRUE)

NextLive ==
    \/ CreateEvent({"u1"}, CoupleNames, RandomSuffixes)
    \/ \E c \in Clients : Join(c, TypedCodes)
    \/ UploadOnce("c1")
    \/ LiveFeed("c1")
    \/ \E p \in ApiPhotoIds, e \in EventIds : ApiInsertPhoto("c2", p, e, AuthUid("c2"))
    \/ \E p \in ApiPhotoIds, caption \in OtherCaptions : ApiUpdateCaption("c2", p, caption)
    \/ \E p \in ApiPhotoIds : ApiDeletePhoto("c2", p)

SpecLive == Init /\ [][NextLive]_vars

\* The guest page specification: one visitor loads /guest with and without a
\* stored session, joins, uploads a photo, and fetches of the guest row fail.
NextGuestPage ==
    \/ CreateEvent({"u1"}, CoupleNames, RandomSuffixes)
    \/ Join("c1", TypedCodes)
    \/ OpenGuestPage("c1")
    \/ SessionLoaded("c1")
    \/ UploadPage("c1", 1)
    \/ FetchData("c1", FALSE)

SpecGuestPage == Init /\ [][NextGuestPage]_vars

(***************************************************************************)
(* History of a guest, as the claims speak of it.                          *)
(***************************************************************************)
\* The tabs showing guest g.
TabsOf(g) == {c \in Clients : guestSession[c] # NoSession /\ guestSession[c].guestId = g}

\* No upload, delete or fetch of guest g is under way in any tab.
Quiescent(g) == \A c \in TabsOf(g) : ~InFlight(c) /\ ~fetching[c]

\* The photo records guest g owns: the named rows and the counted ones.
PhotosOwned(g) ==
    Cardinality({p \in DOMAIN photos : photos[p].guest_id = g}) + untracked[g]

\* The operations on guest g have run one at a time so far, each started from a
\* re-fetched guest row.
OneAtATime(g) == ~hist[g].overlapped

(***************************************************************************)
(* The quota.                                                              *)
(***************************************************************************)
\* C1: in every reachable state, every guest's photos_remaining is greater than
\* or equal to 0, whatever joins, uploads (succeeding or failing at any step),
\* deletes and caption edits have been performed.
C1_QuotaNeverNegative ==
    \A g \in DOMAIN guests : guests[g].photos_remaining >= 0

\* C2: while one client performs its operations one at a time, the number of
\* photo records a guest owns plus the guest's photos_remaining never exceeds the
\* guest's initial quota.
C2_PhotosBounded ==
    \A g \in DOMAIN guests :
        (OneAtATime(g) /\ Quiescent(g))
            => PhotosOwned(g) + guests[g].photos_remaining <= hist[g].initial

\* Tab c is offered the upload screen in this step.
UploadOffered(c) == upload[c].pc = "closed" /\ upload'[c].pc = "pick"

\* The photo insert of tab c's upload succeeds in this step.
UploadInserts(c) == upload[c].pc = "insert" /\ upload'[c].pc = "update"

\* Tab c's upload succeeds in this step.
UploadSucceeds(c) == upload[c].pc = "update" /\ upload'[c].pc = "closed"

\* Exactly one photo record, of guest g and event e, is added in this step.
OnePhotoInserted(g, e) ==
    \/ /\ untracked' = untracked
       /\ \E p \in PhotoIds \ DOMAIN photos :
             /\ DOMAIN photos' = DOMAIN photos \cup {p}
             /\ photos'[p].guest_id = g
             /\ photos'[p].wedding_event_id = e
             /\ \A q \in DOMAIN photos : photos'[q] = photos[q]
    \/ /\ photos' = photos
       /\ untracked[g] < MaxUntracked
       /\ untracked' = [untracked EXCEPT ![g] = @ + 1]
    \/ /\ photos' = photos
       /\ untracked[g] = MaxUntracked
       /\ untracked' = untracked

\* C3: upload is offered only when the guest's photos_remaining is greater than 0;
\* a successful upload inserts exactly one photo record for that guest and event,
\* sets photos_remaining to its previous value minus 1 and has_unlocked_feed to true.
C3_UploadEffect ==
    [][\A c \in Clients :
          LET g == guestSession[c].guestId
          IN  /\ UploadOffered(c) => guests[g].photos_remaining > 0
              /\ UploadInserts(c) => OnePhotoInserted(g, guestSession[c].weddingEventId)
              /\ UploadSucceeds(c) =>
                    /\ guests'[g].photos_remaining = guests[g].photos_remaining - 1
                    /\ guests'[g].has_unlocked_feed]_vars

\* The storage upload or the photo insert of tab c's upload fails in this step.
UploadStepFails(c) ==
    /\ upload[c].pc \in {"storage", "insert"}
    /\ upload'[c] # upload[c]
    /\ failures' # failures

\* C4: if the storage upload or the photo-record insert fails during an upload,
\* the upload aborts and the guest's photos_remaining and has_unlocked_feed are
\* left unchanged.
C4_FailedUploadKeepsQuota ==
    [][\A c \in Clients :
          UploadStepFails(c) =>
              /\ ~InFlight(c)'
              /\ guests' = guests]_vars

\* An upload has failed at its photo insert: the object is stored, no photo record
\* exists, and the guest's row is as it was at join.
C4_InsertFailed ==
    \E c \in Clients :
        /\ upload[c].pc = "confirm"
        /\ failures = 1
        /\ started = 1
        /\ storage # {}
        /\ DOMAIN photos = {}
        /\ guests[guestSession[c].guestId].photos_remaining = default_quota
        /\ ~guests[guestSession[c].guestId].has_unlocked_feed

\* Tab c's delete, which removed the photo record, has its credit written in this step.
DeleteSucceeds(c) ==
    /\ del[c].pc = "update"
    /\ del[c].removed
    /\ del'[c].pc = "idle"
    /\ failures' = failures

\* Tab c's delete reads the guest row in this step.
DeleteReads(c) == del[c].pc = "fetch" /\ del'[c].pc = "update"

C6_QuotaFormula ==
    \A g \in DOMAIN guests :
        LET N == hist[g].uploads
            M == hist[g].deletes
        IN  (/\ OneAtATime(g) /\ Quiescent(g)
             /\ failures = 0
             /\ N < MaxCount /\ M < MaxCount
             /\ N >= M)
                => guests[g].photos_remaining = hist[g].initial - N + Min(M, RESTORE_CAP)

(***************************************************************************)
(* The unlock flag.                                                        *)
(***************************************************************************)
\* C7: in every reachable state, a guest's has_unlocked_feed is true if and only
\* if at least one successful upload has occurred for that guest.
C7_UnlockedIffUploaded ==
    \A g \in DOMAIN guests :
        guests[g].has_unlocked_feed <=> hist[g].uploads > 0

\* A guest whose only photo has been deleted still has the feed unlocked.
C7_UnlockedWithoutPhotos ==
    \E g \in DOMAIN guests :
        /\ guests[g].has_unlocked_feed
        /\ hist[g].uploads = 1
        /\ hist[g].deletes = 1
        /\ PhotosOwned(g) = 0

\* C8: once a guest's has_unlocked_feed is true it stays true in every later
\* state: no upload, delete, caption edit or session operation resets it.
C8_UnlockSticky ==
    [][\A g \in DOMAIN guests :
          guests[g].has_unlocked_feed =>
              (g \in DOMAIN guests' /\ guests'[g].has_unlocked_feed)]_vars

\* A guest with the feed unlocked has deleted the only photo it uploaded, and the
\* tab that showed the guest has cleared its session.
C8_UnlockedAfterLeaving ==
    \E g \in DOMAIN guests :
        /\ guests[g].has_unlocked_feed
        /\ hist[g].deletes = 1
        /\ PhotosOwned(g) = 0
        /\ TabsOf(g) = {}

(***************************************************************************)
(* Captions.                                                               *)
(***************************************************************************)
\* The text the claim has stored for a typed text: the text without its leading
\* and trailing whitespace, or null when nothing is left.
TrimmedOrNull(txt) == IF txt.core = 0 THEN NULL ELSE Text(0, txt.core, 0)

\* Every stored caption is null or has between 1 and 150 characters.
StoredCaptionsInRange ==
    \A p \in DOMAIN photos :
        photos[p].caption.null
            \/ (Length(photos[p].caption) >= 1 /\ Length(photos[p].caption) <= 150)

\* Tab c's caption edit writes the photo's caption in this step.
CaptionSaved(c) ==
    /\ edit[c].editingPhotoId # 0
    /\ edit'[c].editingPhotoId = 0
    /\ photos' # photos

\* C9: a photo's stored caption is always either null or a string of length
\* between 1 and 150: a write of a caption outside that range is rejected, and the
\* upload and caption-edit paths trim the text and store null when the trimmed
\* text is empty.
C9_CaptionRange ==
    /\ []StoredCaptionsInRange
    /\ [][\A c \in Clients :
            /\ (UploadInserts(c) /\ upload[c].fileName # Unnamed) =>
                   photos'[upload[c].fileName].caption = TrimmedOrNull(upload[c].caption)
            /\ CaptionSaved(c) =>
                   photos'[edit[c].editingPhotoId].caption =
                       TrimmedOrNull(edit[c].editCaption)]_vars

\* A photo's caption has been set to null while a tab's list still shows the text
\* of the greatest length it had before.
C9_CaptionCleared ==
    \E c \in Clients : \E row \in feed[c].photos :
        /\ row.id \in DOMAIN photos
        /\ photos[row.id].caption.null
        /\ ~row.caption.null
        /\ Length(row.caption) = 150

(***************************************************************************)
(* Join by code.                                                           *)
(***************************************************************************)
\* The positions of text s that hold no whitespace.
Inked(s) == {i \in 1..Len(s) : ~IsWhitespace(s[i])}

\* Text s without its surrounding whitespace.
Core(s) ==
    IF Inked(s) = {} THEN <<>>
    ELSE SubSeq(s, CHOOSE i \in Inked(s) : \A j \in Inked(s) : i <= j,
                   CHOOSE i \in Inked(s) : \A j \in Inked(s) : i >= j)

\* Texts a and b differ only in letter case or in surrounding whitespace.
DifferOnlyInCaseOrPadding(a, b) ==
    /\ Len(Core(a)) = Len(Core(b))
    /\ \A i \in 1..Len(Core(a)) : Upper(Core(a)[i]) = Upper(Core(b)[i])

\* The entered text converted to uppercase with surrounding whitespace removed.
EnteredKey(text) == [i \in 1..Len(Core(text)) |-> Upper(Core(text)[i])]

\* The event (0: none) a visitor who has typed text joins from the join page.
JoinedEvent(text) ==
    LET found == LookupEvent(ToUpperCase(text))
    IN  IF found = {} THEN 0 ELSE Least(found)

\* The join handler of tab c looks the event up in this step.
JoinLooksUp(c) == joinLog'[c].event >= 0 /\ joinLog'[c] # joinLog[c]

\* C10: event join by code is case-insensitive and trimmed: the event looked up
\* is the one whose event_code equals the entered text converted to uppercase with
\* surrounding whitespace removed, so two inputs differing only in letter case or
\* surrounding whitespace join the same event.
C10_JoinNormalized ==
    [][\A c \in Clients :
          JoinLooksUp(c) =>
              LET typed == joinLog[c].typed
                  joined == joinLog'[c].event
              IN  /\ \A e \in DOMAIN wedding_events :
                        (joined = e) <=> (wedding_events[e].event_code = EnteredKey(typed))
                  /\ \A other \in JoinTexts :
                        DifferOnlyInCaseOrPadding(typed, other) =>
                            JoinedEvent(other) = joined]_vars

\* A visitor who typed the code in lower case with a blank before it has joined
\* the event, as has a visitor who typed it in upper case.
C10_JoinedFromPaddedLowerCase ==
    \E c, d \in Clients :
        /\ joinLog[c].typed = <<" ", "a", "b", "-", "1">>
        /\ joinLog[d].typed = <<"A", "B", "-", "1">>
        /\ joinLog[c].event > 0
        /\ joinLog[d].event = joinLog[c].event
        /\ guestSession[c] # NoSession
        /\ guestSession[d] # NoSession

(***************************************************************************)
(* Concurrent operations of one guest.                                     *)
(***************************************************************************)
\* C11: concurrent uploads of one guest race past the quota check: an upload
\* writes the photos_remaining it observed when it started minus 1, whatever the
\* row holds by then, so two uploads that start from the same observed value both
\* insert a photo while photos_remaining is decremented once.
C11_UploadWritesObservedValue ==
    [][\A c \in Clients :
          UploadSucceeds(c) =>
              guests'[guestSession[c].guestId].photos_remaining =
                  upload[c].photosRemaining - 1]_vars

\* Two tabs of one guest have each inserted a photo and are each about to write
\* the same photos_remaining, one below the value both observed.
C11_TwoUploadsSameObservedValue ==
    \E c, d \in Clients :
        /\ c # d
        /\ guestSession[c] # NoSession
        /\ guestSession[d] = guestSession[c]
        /\ upload[c].pc = "update"
        /\ upload[d].pc = "update"
        /\ upload[c].photosRemaining = upload[d].photosRemaining
        /\ guests[guestSession[c].guestId].photos_remaining = upload[c].photosRemaining
        /\ PhotosOwned(guestSession[c].guestId) = 2

\* The storage removal of tab c's delete fails in this step.
StorageRemoveFails(c) ==
    del[c].pc = "storage" /\ del'[c] # del[c] /\ failures' # failures

\* Tab c's delete has gone past a storage removal that left the object in place.
ObjectLeft(c) ==
    del[c].pc \in {"db", "fetch", "update"} /\ del[c].image_url \in storage

\* C12: a failure to remove the storage object does not stop a delete: the delete
\* goes on to the photo record, which is still deleted, and the guest's credit is
\* still restored, while the storage object stays without a photo record.
C12_StorageFailureIgnored ==
    [][\A c \in Clients :
          LET g == guestSession[c].guestId
              p == del[c].deletePhotoId
          IN  /\ StorageRemoveFails(c) =>
                    /\ del'[c].pc = "db"
                    /\ storage' = storage
                    /\ photos' = photos /\ guests' = guests
              /\ (ObjectLeft(c) /\ del[c].pc = "db" /\ del'[c].pc = "fetch"
                     /\ PhotoOwnedBy(AuthUid(c), p)) =>
                    /\ p \notin DOMAIN photos'
                    /\ ObjectLeft(c)'
              /\ (ObjectLeft(c) /\ DeleteSucceeds(c)) =>
                    /\ guests'[g].photos_remaining = Min(del[c].photos_remaining + 1, 10)
                    /\ p \notin DOMAIN photos'
                    /\ del[c].image_url \in storage']_vars

\* A delete whose storage removal failed has finished: the credit is restored,
\* the photo record is gone and its object is still stored.
C12_ObjectWithoutRecord ==
    \E g \in DOMAIN guests :
        /\ failures = 1
        /\ hist[g].uploads = 1
        /\ hist[g].deletes = 1
        /\ guests[g].photos_remaining = Min(hist[g].initial, 10)
        /\ DOMAIN photos = {}
        /\ storage # {}
        /\ Quiescent(g)

(***************************************************************************)
(* Joining.                                                                *)
(***************************************************************************)
\* The join of tab c succeeds in this step.
JoinSucceeds(c) == guestSession[c] = NoSession /\ joinLog'[c].event > 0
                       /\ guestSession'[c] # NoSession

\* C13: joining an event creates exactly one guest record, for that event, with
\* photos_remaining equal to the default quota of the schema in force and
\* has_unlocked_feed false; a join that fails creates none.
C13_JoinCreatesGuest ==
    [][/\ \A c \in Clients :
             /\ JoinSucceeds(c) =>
                   LET g == guestSession'[c].guestId
                   IN  /\ DOMAIN guests' = DOMAIN guests \cup {g}
                       /\ g \notin DOMAIN guests
                       /\ guests'[g].wedding_event_id = joinLog'[c].event
                       /\ guestSession'[c].weddingEventId = joinLog'[c].event
                       /\ guests'[g].photos_remaining = default_quota
                       /\ guests'[g].has_unlocked_feed = FALSE
                       /\ \A h \in DOMAIN guests : guests'[h] = guests[h]
             /\ (JoinLooksUp(c) /\ ~JoinSucceeds(c)) => guests' = guests
       /\ DOMAIN guests' # DOMAIN guests => \E c \in Clients : JoinSucceeds(c)]_vars

\* Two visitors have joined the same event under the schema whose default is 20:
\* each has a guest record of its own with 20 photos remaining and the feed locked.
C13_TwoGuestsJoined ==
    \E c, d \in Clients :
        /\ c # d
        /\ guestSession[c] # NoSession /\ guestSession[d] # NoSession
        /\ guestSession[c].guestId # guestSession[d].guestId
        /\ guestSession[c].weddingEventId = guestSession[d].weddingEventId
        /\ default_quota = QUOTA_V2
        /\ \A g \in {guestSession[c].guestId, guestSession[d].guestId} :
              /\ guests[g].photos_remaining = QUOTA_V2
              /\ ~guests[g].has_unlocked_feed

(***************************************************************************)
(* Caption edit: what it leaves alone.                                     *)
(***************************************************************************)
\* Tab c's caption edit ends in this step: saved, failed or cancelled.
EditEnds(c) ==
    /\ edit[c].editingPhotoId # 0
    /\ edit'[c] = NoEdit
    /\ feed'[c] = feed[c]

\* Photo row p is the same but for its caption.
SameButCaption(p) ==
    /\ photos'[p].wedding_event_id = photos[p].wedding_event_id
    /\ photos'[p].guest_id = photos[p].guest_id
    /\ photos'[p].image_url = photos[p].image_url

\* C14: a caption edit changes only the caption of the edited photo: every
\* guest's photos_remaining and has_unlocked_feed, the set of photo records and
\* every other photo's caption are unchanged, whether the edit succeeds or fails.
C14_EditChangesOnlyCaption ==
    [][\A c \in Clients :
          EditEnds(c) =>
              /\ guests' = guests
              /\ untracked' = untracked
              /\ storage' = storage
              /\ DOMAIN photos' = DOMAIN photos
              /\ \A q \in DOMAIN photos :
                     IF q = edit[c].editingPhotoId THEN SameButCaption(q)
                     ELSE photos'[q] = photos[q]]_vars

\* Two photos of one guest: one holds the text saved in the feed, the other a text
\* written before; a request has failed on the way.
C14_EditedBesideAnother ==
    \E p, q \in DOMAIN photos :
        /\ p # q
        /\ photos[p].guest_id = photos[q].guest_id
        /\ photos[p].caption \in EditCaptions
        /\ photos[q].caption \in OtherCaptions
        /\ failures = 1
        /\ \A c \in Clients : edit[c] = NoEdit

(***************************************************************************)
(* Ownership of a photo.                                                   *)
(***************************************************************************)
\* Photo row p is deleted or written in this step.
PhotoChanged(p) == p \notin DOMAIN photos' \/ photos'[p] # photos[p]

\* The identities whose request on photo p the backend serves in this step: an API
\* request, the update of a tab's caption edit, the delete of a tab's delete.
ActingOn(p) ==
    {request'.by : x \in {y \in {request'} :
                      request' # request /\ y.table = "photos" /\ y.id = p}}
        \cup {AuthUid(c) : c \in {d \in Clients :
                      \/ edit[d].editingPhotoId = p /\ edit'[d].editingPhotoId = 0
                      \/ del[d].pc = "db" /\ del[d].deletePhotoId = p /\ del'[d].pc # "db"}}

\* The rows of tab c's list on which the edit and delete controls are rendered.
WithControls(c) == {row \in feed[c].photos : OwnerActionsShown(c, row)}

\* The photo tab c edits or is about to delete, as its list holds it.
InHand(c) ==
    {row \in feed[c].photos :
        row.id = edit[c].editingPhotoId \/ row.id = del[c].deletePhotoId}

\* C15: only the owner of a photo can delete it or edit its caption: a delete or
\* an update of a photo row succeeds only when the acting identity equals the
\* photo's guest_id, and the feed shows the edit and delete controls only on
\* photos whose guest_id equals the current guest's id.
C15_OnlyOwnerWrites ==
    /\ [](\A c \in Clients : \A row \in WithControls(c) \cup InHand(c) :
              row.guest_id = guestSession[c].guestId)
    /\ [][\A p \in DOMAIN photos :
              PhotoChanged(p) =>
                  /\ ActingOn(p) # {}
                  /\ \A uid \in ActingOn(p) : uid = photos[p].guest_id]_vars

\* A guest's list shows a photo of its own with the controls and a photo of another
\* guest without them, and a delete sent by a guest who does not own the photo has
\* left the row in place.
C15_ForeignDeleteRefused ==
    /\ \E c \in Clients : \E row \in feed[c].photos :
           /\ row.guest_id # guestSession[c].guestId
           /\ row \notin WithControls(c)
           /\ WithControls(c) # {}
    /\ request.op = "delete"
    /\ request.id \in DOMAIN photos
    /\ photos[request.id].guest_id # request.by

(***************************************************************************)
(* Visibility of the feed.                                                 *)
(***************************************************************************)
\* The photo rows the backend returns to tab c's identity.
Readable(c) == {p \in DOMAIN photos : PhotoVisibleTo(c, p)}

\* The page of tab c shows the locked screen: the guest row is loaded, the upload
\* view is closed and no feed is mounted.
LockedScreen(c) == guestData[c].loaded /\ ~showUpload(c) /\ ~FeedMounted(c)

\* What the guest of tab c, with guest row g, can see.
SeesOnlyWhenUnlocked(c, g) ==
    /\ ~guests[g].has_unlocked_feed =>
           /\ Readable(c) = {}
           /\ feed[c] = NoFeed
           /\ (guestData[c].loaded /\ ~showUpload(c)) => LockedScreen(c)
    /\ guests[g].has_unlocked_feed => hist[g].uploads >= 1
    /\ \A p \in Readable(c) :
           /\ photos[p].wedding_event_id = guests[g].wedding_event_id
           /\ guests[g].has_unlocked_feed
    /\ \A row \in feed[c].photos :
           row.id \in DOMAIN photos =>
               photos[row.id].wedding_event_id = guests[g].wedding_event_id

\* A select of the photos table is answered in this step.
PhotosSelected == request' # request /\ request'.table = "photos" /\ request'.op = "select"

CreateAttempted(u) == createLog'[u] # createLog[u]

\* The events that hold the code couple u's submission generated.
HoldersOfCode(u) ==
    {e \in DOMAIN wedding_events : wedding_events[e].event_code = createLog'[u].code}

\* C17: no two wedding events ever share the same event code: creating an event
\* whose generated code equals an existing event's code fails with an error,
\* stores no new event and leaves the dashboard without an event set.
C17_EventCodesDistinct ==
    /\ [](\A e, f \in DOMAIN wedding_events :
              wedding_events[e].event_code = wedding_events[f].event_code => e = f)
    /\ [][\A u \in Couples :
              (CreateAttempted(u) /\ HoldersOfCode(u) # {}) =>
                  /\ createLog'[u].outcome = "error"
                  /\ wedding_events' = wedding_events
                  /\ dashEvent[u] = 0
                  /\ dashEvent'[u] = 0]_vars

\* A couple's submission generated the code of the other couple's event and
\* failed: one event is stored and the couple's dashboard has none.
C17_CollisionRefused ==
    \E u \in Couples :
        /\ createLog[u].outcome = "error"
        /\ dashEvent[u] = 0
        /\ Cardinality(DOMAIN wedding_events) = 1
        /\ \E e \in DOMAIN wedding_events :
               /\ wedding_events[e].event_code = createLog[u].code
               /\ wedding_events[e].couple_user_id # u

(***************************************************************************)
(* The anonymous-auth policies.                                            *)
(***************************************************************************)
\* Guest row g is inserted or written in this step.
GuestWritten(g) ==
    IF g \in DOMAIN guests
    THEN g \notin DOMAIN guests' \/ guests'[g] # guests[g]
    ELSE g \in DOMAIN guests'

\* The identities whose insert or update of guest row g the backend serves in
\* this step: an API request, the insert of createGuestSession, or a join.
WritingGuest(g) ==
    {request'.by : x \in {y \in {request'} :
                      request' # request /\ y.table = "guests" /\ y.id = g}}
        \cup {AuthUid(c) : c \in {d \in Clients :
                      create[d].pc = "insert" /\ create'[d].pc # "insert" /\ create[d].user = g}}
        \cup {AuthUid(c)' : c \in {d \in Clients : JoinSucceeds(d)}}

\* A select of the guests table is answered in this step.
GuestsSelected == request' # request /\ request'.table = "guests" /\ request'.op = "select"

\* The couple that owns the event of guest row g.
CoupleOf(g) == wedding_events[guests[g].wedding_event_id].couple_user_id

\* C18: under the anonymous-auth policies a guest row can be inserted, read or
\* updated only by the identity whose id equals the row's id, read also by the
\* couple that owns the guest's event; a photo row can be inserted only with
\* guest_id equal to the acting identity.
C18_GuestRowsOwnIdentityOnly ==
    [][/\ \A g \in GuestIds :
              GuestWritten(g) =>
                  /\ WritingGuest(g) # {}
                  /\ \A uid \in WritingGuest(g) : uid = g
       /\ GuestsSelected =>
              \A g \in request'.rows :
                  IF request'.couple = "none" THEN request'.by = g
                  ELSE CoupleOf(g) = request'.couple
       /\ \A p \in DOMAIN photos' \ DOMAIN photos :
              /\ request' # request
              /\ request'.table = "photos"
              /\ photos'[p].guest_id = request'.by]_vars

\* An identity has written the quota and the flag of its own guest row through the
\* API, and its update of the other guest's row has left that row as the join made
\* it; a photo row of the identity is stored.
C18_ForeignUpdateRefused ==
    /\ request.table = "guests"
    /\ request.op = "update"
    /\ request.by \in DOMAIN guests
    /\ request.id \in DOMAIN guests
    /\ request.id # request.by
    /\ guests[request.id] = GuestRowAtJoin(guests[request.id].wedding_event_id)
    /\ guests[request.by].has_unlocked_feed
    /\ guests[request.by].photos_remaining \in WrittenQuotas
    /\ \E p \in DOMAIN photos : photos[p].guest_id = request.by

(***************************************************************************)
(* createGuestSession.                                                     *)
(***************************************************************************)
\* createGuestSession returns in tab c in this step.
Returns(c) == create[c].pc \in {"signin", "insert", "signout"} /\ create'[c].pc = "returned"

\* The guest insert of tab c's call is answered with an error in this step.
GuestInsertFails(c) ==
    /\ create[c].pc = "insert"
    /\ create'[c].pc \in {"signout", "returned"}
    /\ ~create'[c].success

\* The call of tab c has returned after its guest insert failed.
ReturnedAfterFailedInsert(c) ==
    create[c].pc = "returned" /\ ~create[c].success /\ create[c].user # 0

AllowedExtensions == {"jpg", "jpeg", "png", "gif", "webp"}

\* The storage upload of tab c's upload is answered in this step.
StorageAnswered(c) == upload[c].pc = "storage" /\ upload'[c].pc # "storage"

\* C19: a storage upload into the wedding-photos bucket is accepted only when the
\* extension of the object name is one of jpg, jpeg, png, gif and webp; an upload
\* of a file with any other extension fails, inserts no photo row and leaves
\* photos_remaining unchanged.
C19_ExtensionEnforced ==
    [][\A c \in Clients :
          (StorageAnswered(c) /\ upload[c].fileExt \notin AllowedExtensions) =>
              /\ storage' = storage
              /\ upload'[c].pc = "confirm"
              /\ photos' = photos
              /\ untracked' = untracked
              /\ guests' = guests]_vars

(***************************************************************************)
(* Failures of a delete.                                                   *)
(***************************************************************************)
\* The delete of the photo record of tab c's delete fails in this step.
DeleteDbFails(c) == del[c].pc = "db" /\ del'[c] # del[c] /\ failures' # failures

\* C21: if the database delete of the photo record fails during a photo deletion,
\* the delete ends there: the guest's photos_remaining is not changed and the
\* photo record remains, whether or not the storage object has been removed.
C21_FailedDbDeleteKeepsAll ==
    [][\A c \in Clients :
          DeleteDbFails(c) =>
              /\ del'[c].pc = "idle"
              /\ guests' = guests
              /\ photos' = photos
              /\ storage' = storage]_vars

\* A delete has removed the object and then failed at the photo record: the record
\* is there without its object, and the guest's credit is still spent.
C21_RecordWithoutObject ==
    \E g \in DOMAIN guests :
        /\ failures = 1
        /\ hist[g].uploads = 1
        /\ hist[g].deletes = 0
        /\ Quiescent(g)
        /\ \A c \in TabsOf(g) : del[c].pc = "idle"
        /\ guests[g].photos_remaining = hist[g].initial - 1
        /\ \E p \in DOMAIN photos : photos[p].guest_id = g /\ photos[p].image_url \notin storage

(***************************************************************************)
(* The couple feed.                                                        *)
(***************************************************************************)
\* The events whose code is the one of visitor v's route.
RouteEvents(v) ==
    {e \in DOMAIN wedding_events : wedding_events[e].event_code = coupleFeed[v].eventCode}

\* What the couple feed of visitor v holds is an event of v and photos of that event.
HoldsOwnEventOnly(v) ==
    /\ coupleFeed[v].weddingEvent # 0 =>
           /\ v \in Couples
           /\ coupleFeed[v].weddingEvent \in DOMAIN wedding_events
           /\ wedding_events[coupleFeed[v].weddingEvent].couple_user_id = v
    /\ \A p \in coupleFeed[v].photos :
           /\ coupleFeed[v].weddingEvent # 0
           /\ p \in DOMAIN photos
           /\ photos[p].wedding_event_id = coupleFeed[v].weddingEvent
    /\ v \notin Couples => coupleFeed[v].pc \in {"closed", "auth"}

\* The lookup of the event of visitor v's route is answered in this step.
EventLookupEnds(v) == coupleFeed[v].pc = "event" /\ coupleFeed'[v].pc # "event"

\* C22: the couple feed shows an event's photos only to the couple that owns it: a
\* visitor who is not signed in is sent to the sign-in page, and a signed-in user
\* who is not the couple of the event is sent back to the dashboard with neither
\* the event nor a photo of it loaded into the page.
C22_CoupleFeedOwnerOnly ==
    /\ [](\A v \in Visitors : HoldsOwnEventOnly(v))
    /\ [][\A v \in Visitors :
             /\ (coupleFeed'[v] # coupleFeed[v] /\ v \notin Couples) =>
                    coupleFeed'[v].pc = "auth"
             /\ (EventLookupEnds(v)
                     /\ \E e \in RouteEvents(v) : wedding_events[e].couple_user_id # v) =>
                    /\ coupleFeed'[v].pc = "dashboard"
                    /\ coupleFeed'[v].weddingEvent = 0
                    /\ coupleFeed'[v].photos = {}]_vars

\* The couple of an event sees its photo, the other couple has asked for the same
\* event and is at the dashboard with nothing loaded, and the visitor who is not
\* signed in is at the sign-in page.
C22_OwnerSeesOtherSentBack ==
    \E u \in Couples : \E w \in Couples \ {u} :
        /\ coupleFeed[u].pc = "shown"
        /\ coupleFeed[u].photos # {}
        /\ coupleFeed[w].pc = "dashboard"
        /\ coupleFeed[w].eventCode = coupleFeed[u].eventCode
        /\ coupleFeed[w].weddingEvent = 0
        /\ failures = 0
        /\ coupleFeed["nobody"].pc = "auth"

(***************************************************************************)
(* The guest page and its session.                                         *)
(***************************************************************************)
\* Tab c shows guest data only on the guest page, for a session whose guest row
\* and event exist; once session loading has finished the guest page is shown
\* only with a session.
ShowsValidatedOnly(c) ==
    /\ route[c] = "guest" => guestSession[c] # NoSession
    /\ guestData[c].loaded =>
           /\ route[c] = "guest"
           /\ guestSession[c].guestId \in DOMAIN guests
           /\ guestSession[c].weddingEventId \in DOMAIN wedding_events
           /\ guests[guestSession[c].guestId].wedding_event_id = guestSession[c].weddingEventId

\* The hook of tab c finishes loading the session in this step.
SessionLoadEnds(c) == route[c] = "loading" /\ route'[c] # "loading"

\* A fetch of the guest row and the event of tab c fails in this step.
FetchFails(c) == fetching[c] /\ ~fetching'[c] /\ failures' # failures

\* C23: on the guest page, when no guest session exists after session loading
\* finishes the guest is sent to the join page, and when fetching the guest record
\* or the event fails the stored session is cleared and the guest is sent to the
\* join page; the page never shows guest data for a session that was not validated.
C23_GuestPageNeedsValidSession ==
    /\ [](\A c \in Clients : ShowsValidatedOnly(c))
    /\ [][\A c \in Clients :
             /\ (SessionLoadEnds(c) /\ guestSession[c] = NoSession) => route'[c] = "join"
             /\ FetchFails(c) =>
                    /\ guestSession'[c] = NoSession
                    /\ route'[c] = "join"
                    /\ ~guestData'[c].loaded]_vars

\* A guest who had uploaded a photo is back at the join page without a session
\* after a fetch failed, and the guest row is still there.
C23_SentBackAfterFailedFetch ==
    \E c \in Clients, g \in DOMAIN guests :
        /\ joinLog[c].event > 0
        /\ hist[g].uploads = 1
        /\ failures = 1
        /\ guestSession[c] = NoSession
        /\ route[c] = "join"
        /\ ~guestData[c].loaded
        /\ TabsOf(g) = {}

C25_OneCreditPerRemovedPhoto ==
    \A g \in DOMAIN guests : hist[g].restored <= hist[g].removed

(***************************************************************************)
(* Uploads as units.                                                       *)
(***************************************************************************)
\* Tab c's upload reports failure in this step: the catch block shows the toast.
UploadReportsFailure(c) ==
    upload[c].pc \in {"storage", "insert", "update"} /\ upload'[c].pc = "confirm"

\* C26: an upload is all-or-nothing with respect to the database: when an upload
\* succeeds its photo record exists, the guest's photos_remaining has been written
\* and has_unlocked_feed is true; when an upload reports failure no photo record
\* from it exists and the guest's row is as it was.
C26_UploadAllOrNothing ==
    [][\A c \in Clients :
          LET g == guestSession[c].guestId
          IN  /\ UploadSucceeds(c) =>
                    /\ upload[c].fileName # Unnamed => upload[c].fileName \in DOMAIN photos'
                    /\ guests'[g].has_unlocked_feed
              /\ UploadReportsFailure(c) =>
                    /\ upload[c].fileName # Unnamed => upload[c].fileName \notin DOMAIN photos'
                    /\ guests' = guests]_vars

(***************************************************************************)
(* C27.  The list of the guest feed never holds two entries with the same  *)
(* photo id, whatever the order in which the answer of the initial fetch   *)
(* and the handlers of the INSERT, UPDATE and DELETE notifications run.    *)
(***************************************************************************)
NoDuplicateIds(list) ==
    \A i \in 1..Len(list) : \A j \in 1..Len(list) : list[i] = list[j] => i = j

C27_FeedListHasNoDuplicates ==
    \A c \in Clients : NoDuplicateIds(live[c].photos)

(***************************************************************************)
(* C28.  Once the initial fetch has been answered and its rows are in the  *)
(* list, and every notification sent to the tab has run its handler to the *)
(* end, the list of the guest feed holds exactly the photos that exist for *)
(* the event: a deleted photo neither stays nor comes back.  Feeds whose   *)
(* fetch failed, or that missed a change made before their channel had     *)
(* joined, are left out.                                                   *)
(***************************************************************************)
ListIds(c) == {live[c].photos[i] : i \in 1..Len(live[c].photos)}

FeedSettled(c) ==
    /\ live[c].channel = "joined"
    /\ live[c].fetch = "done"
    /\ ~live[c].loading
    /\ ~live[c].missed
    /\ live[c].inbox = <<>>
    /\ live[c].signing = {}

C28_SettledListIsEventPhotos ==
    \A c \in Clients : FeedSettled(c) => ListIds(c) = EventPhotos(c)

(***************************************************************************)
(* C29.  After clearGuestSession has completed guestSession is null, and   *)
(* it stays null until a later call of createGuestSession succeeds, also   *)
(* when a lookup of the listener or of checkSession was pending at the     *)
(* sign-out.                                                               *)
(***************************************************************************)
C29_ClearedStaysNull ==
    \A c \in Clients : cleared[c] => guestSession[c] = NoSession

(***************************************************************************)
(* C30.  Within one upload screen at most one upload is in flight: from    *)
(* Share on, uploading is true and Share, Choose Another and Close stay    *)
(* disabled until the upload fails, which resets the flag, or succeeds,    *)
(* which closes the screen; so the photo confirmed on the screen leads to  *)
(* at most one photo record.                                               *)
(***************************************************************************)
\* const [uploading, setUploading] = useState(false)
uploading(c) == upload[c].pc \in {"storage", "insert", "update"}

\* While uploading, the step of the screen is a step of the one upload in flight:
\* it goes on, it fails back to the confirm view, or it succeeds and closes.
C30_OneUploadInFlight ==
    [][\A c \in Clients :
          (uploading(c) /\ upload'[c] # upload[c]) =>
              \/ /\ uploading(c)'
                 /\ upload'[c].fileName = upload[c].fileName
                 /\ upload'[c].fileExt = upload[c].fileExt
                 /\ upload'[c].caption = upload[c].caption
              \/ /\ UploadReportsFailure(c)
                 /\ upload'[c].fileExt = upload[c].fileExt
                 /\ upload'[c].caption = upload[c].caption
              \/ /\ UploadSucceeds(c)
                 /\ upload'[c] = ClosedUpload]_vars

C30_OneRecordPerConfirmedPhoto ==
    /\ [](\A c \in Clients : upload[c].inserted <= 1)
    /\ C30_OneUploadInFlight

====
